---- MODULE Spec2Model ----
(***************************************************************************)
(* A model of the graph execution engine of tokenring-ai/runnable:         *)
(* RunnableGraph (construction, scheduler, persistence) as written in the  *)
(* TypeScript source (src/graph.js lines 907-2218), GraphOrchestrator      *)
(* (src/orchestrator.ts), RunnableGraphBuilder (src/graphBuilder.ts) and   *)
(* the schema validator (src/schema-validator.ts).                         *)
(*                                                                         *)
(* Node ids are JavaScript strings.  The code builds the mapping string    *)
(* `${fromNodeId}.${fromOutput}` and later takes it apart again with       *)
(* mapping.split("."), so an id, a slot name or a key is modelled by the   *)
(* sequence of its "."-separated segments: "n1" is <<"n1">>, "n1.p" is     *)
(* <<"n1","p">>, and joining two of them with "." is \o.                   *)
(*                                                                         *)
(* Values that flow between nodes are modelled by their printed form, a    *)
(* sequence of tokens, so that two values are equal exactly when they      *)
(* were built the same way from the graph input.                           *)
(***************************************************************************)
EXTENDS Integers, Sequences, FiniteSets, TLC

----------------------------------------------------------------------------
(* Bounds of the model *)

\* largest maxConcurrency option the initial states draw from
MaxConcurrencyChoice == 2
\* most invocations of the same graph in one behaviour
MaxRuns == 2
\* most scheduler passes of one orchestrator invocation
MaxPasses == 3

----------------------------------------------------------------------------
(* Generic helpers *)

SeqToSet(s) == {s[i] : i \in 1..Len(s)}

\* Array.prototype.includes
Includes(s, x) == \E i \in 1..Len(s) : s[i] = x

\* Map / object lookup with a default for an absent key
Lookup(f, k, default) == IF k \in DOMAIN f THEN f[k] ELSE default

\* Map.set / obj[k] = v
Put(f, k, v) == [x \in DOMAIN f \cup {k} |-> IF x = k THEN v ELSE f[x]]

\* the empty Map / object
EmptyMap == [x \in {} |-> <<>>]

\* Object.assign-style merge: every entry of g written over f
Merge(f, g) == [x \in DOMAIN f \cup DOMAIN g |-> IF x \in DOMAIN g THEN g[x] ELSE f[x]]

----------------------------------------------------------------------------
(* Values *)
(* A value is a record: `text` is its printed form, `obj` says whether it  *)
(* is a (non-null) object, and `keys` / `vals` are its own properties.     *)

Scalar(text) == [text |-> text, obj |-> FALSE, keys |-> <<>>, vals |-> <<>>]

\* the input handed to graph.invoke
GraphInput == Scalar(<<"x">>)

\* Map.get of an absent key
Undefined == Scalar(<<"undefined">>)

\* an id or key printed back as one string: segments joined by "."
RECURSIVE IdText(_)
IdText(id) ==
    IF Len(id) = 0 THEN <<>>
    ELSE IF Len(id) = 1 THEN <<id[1]>>
    ELSE <<id[1], ".">> \o IdText(Tail(id))

\* an object literal { k1: v1, k2: v2, ... } from a sequence of [key, value] records
RECURSIVE ObjBody(_)
ObjBody(kvs) ==
    IF Len(kvs) = 0 THEN <<>>
    ELSE IdText(kvs[1].key) \o <<":">> \o kvs[1].value.text \o <<",">> \o ObjBody(Tail(kvs))

ObjValue(kvs) ==
    [text |-> <<"{">> \o ObjBody(kvs) \o <<"}">>, obj |-> TRUE,
     keys |-> [i \in 1..Len(kvs) |-> kvs[i].key],
     vals |-> [i \in 1..Len(kvs) |-> kvs[i].value]]

\* an array [ v1, v2, ... ]
ArrayValue(values) ==
    [text |-> <<"[">> \o ObjBody([i \in 1..Len(values) |-> [key |-> <<>>, value |-> values[i]]])
              \o <<"]">>,
     obj |-> TRUE, keys |-> <<>>, vals |-> values]

\* Array.isArray(value)
IsArray(value) == value.obj /\ value.text[1] = "["

\* key in value
HasKey(value, key) == value.obj /\ Includes(value.keys, key)

\* value[key]
Field(value, key) ==
    IF HasKey(value, key)
    THEN value.vals[CHOOSE i \in 1..Len(value.keys) : value.keys[i] = key]
    ELSE Undefined

\* edge.transform(value) for a transform named t
ApplyTransform(t, value) ==
    IF t = "none" THEN value ELSE Scalar(<<t, "(">> \o value.text \o <<")">>)

----------------------------------------------------------------------------
(* Runnables (the external collaborator)                                   *)
(* kind "scalar"  : returns one opaque value computed from its input       *)
(* kind "object"  : returns an object with the keys `keys`                 *)
(* kind "identity": returns its input (MockRunnable without an output)     *)
(* kind "fail"    : its invoke throws                                      *)
(* kind "append"  : returns the array it is given with its node id added;  *)
(*                  given anything but an array, it throws                 *)
(* `events` is the number of events the runnable yields before it returns  *)
(* or throws.                                                              *)

ScalarRunnable == [kind |-> "scalar", keys |-> <<>>, events |-> 0]
ObjectRunnable(keys) == [kind |-> "object", keys |-> keys, events |-> 0]
IdentityRunnable == [kind |-> "identity", keys |-> <<>>, events |-> 0]
FailingRunnable == [kind |-> "fail", keys |-> <<>>, events |-> 0]
AppendRunnable == [kind |-> "append", keys |-> <<>>, events |-> 0]

\* the same runnable yielding n events
Chatty(runnable, n) == [runnable EXCEPT !.events = n]

\* does the runnable throw instead of returning, given `input`?
RunnableThrows(runnable, input) ==
    \/ runnable.kind = "fail"
    \/ runnable.kind = "append" /\ ~IsArray(input)

\* the value the runnable of node `id` returns for `input`
RunnableResult(runnable, id, input) ==
    IF runnable.kind = "append" THEN ArrayValue(Append(input.vals, Scalar(IdText(id))))
    ELSE IF runnable.kind = "object"
    THEN ObjValue([i \in 1..Len(runnable.keys) |->
            [key |-> runnable.keys[i],
             value |-> Scalar(<<"f">> \o IdText(id) \o <<"#">> \o IdText(runnable.keys[i])
                              \o <<"(">> \o input.text \o <<")">>)]])
    ELSE IF runnable.kind = "identity" THEN input
    ELSE Scalar(<<"f">> \o IdText(id) \o <<"(">> \o input.text \o <<")">>)

----------------------------------------------------------------------------
(* Schemas: Zod schemas as the validator reads them (schema._def), and the *)
(* SchemaInfo records of schema-validator.ts                               *)

\* a Zod schema: def.typeName, def.innerType / def.type / def.options (inner),
\* def.shape() as its entries in order (shape), def.values / def.value (values)
Zod(typeName) == [typeName |-> typeName, inner |-> <<>>, shape |-> <<>>, values |-> <<>>]

\* the schema of a runnable that declares none
NoSchema == Zod("undefined")

ZodString == Zod("ZodString")
ZodNumber == Zod("ZodNumber")
ZodBoolean == Zod("ZodBoolean")
ZodDate == Zod("ZodDate")
ZodAny == Zod("ZodAny")
ZodUnknown == Zod("ZodUnknown")
ZodVoid == Zod("ZodVoid")
ZodUndefined == Zod("ZodUndefined")
ZodNull == Zod("ZodNull")
\* a schema type extractSchemaInfo has no case for
ZodEffects == Zod("ZodEffects")
ZodOptional(schema) == [Zod("ZodOptional") EXCEPT !.inner = <<schema>>]
ZodNullable(schema) == [Zod("ZodNullable") EXCEPT !.inner = <<schema>>]
ZodDefault(schema) == [Zod("ZodDefault") EXCEPT !.inner = <<schema>>]
ZodArray(schema) == [Zod("ZodArray") EXCEPT !.inner = <<schema>>]
ZodUnion(options) == [Zod("ZodUnion") EXCEPT !.inner = options]
ZodObject(shape) == [Zod("ZodObject") EXCEPT !.shape = shape]
ZodEnum(values) == [Zod("ZodEnum") EXCEPT !.values = values]
ZodLiteral(value) == [Zod("ZodLiteral") EXCEPT !.values = <<value>>]

\* a SchemaInfo; properties are the entries of the properties object in order, and
\* element and literal hold one value when present
SchemaInfo(type, optional, nullable) ==
    [type |-> type, optional |-> optional, nullable |-> nullable,
     properties |-> <<>>, element |-> <<>>, union |-> <<>>, enum |-> <<>>, literal |-> <<>>]

\* extractSchemaInfo
RECURSIVE ExtractSchemaInfo(_)
ExtractSchemaInfo(schema) ==
    LET typeName == schema.typeName
    IN  IF schema = NoSchema THEN SchemaInfo("unknown", FALSE, FALSE)
        ELSE IF typeName = "ZodOptional"
        THEN [ExtractSchemaInfo(schema.inner[1]) EXCEPT !.optional = TRUE]
        ELSE IF typeName = "ZodNullable"
        THEN [ExtractSchemaInfo(schema.inner[1]) EXCEPT !.nullable = TRUE]
        ELSE IF typeName = "ZodDefault"
        THEN [ExtractSchemaInfo(schema.inner[1]) EXCEPT !.optional = TRUE]
        ELSE CASE typeName = "ZodString" -> SchemaInfo("string", FALSE, FALSE)
               [] typeName = "ZodNumber" -> SchemaInfo("number", FALSE, FALSE)
               [] typeName = "ZodBoolean" -> SchemaInfo("boolean", FALSE, FALSE)
               [] typeName = "ZodDate" -> SchemaInfo("date", FALSE, FALSE)
               [] typeName = "ZodArray" ->
                      [SchemaInfo("array", FALSE, FALSE) EXCEPT
                          !.element = <<ExtractSchemaInfo(schema.inner[1])>>]
               [] typeName = "ZodObject" ->
                      [SchemaInfo("object", FALSE, FALSE) EXCEPT
                          !.properties = [i \in 1..Len(schema.shape) |->
                              [key |-> schema.shape[i].key,
                               value |-> ExtractSchemaInfo(schema.shape[i].value)]]]
               [] typeName = "ZodUnion" ->
                      [SchemaInfo("union", FALSE, FALSE) EXCEPT
                          !.union = [i \in 1..Len(schema.inner) |->
                                        ExtractSchemaInfo(schema.inner[i])]]
               [] typeName = "ZodEnum" ->
                      [SchemaInfo("enum", FALSE, FALSE) EXCEPT !.enum = schema.values]
               [] typeName = "ZodLiteral" ->
                      [SchemaInfo("literal", FALSE, FALSE) EXCEPT !.literal = schema.values]
               [] typeName = "ZodAny" -> SchemaInfo("any", FALSE, FALSE)
               [] typeName = "ZodUnknown" -> SchemaInfo("unknown", FALSE, FALSE)
               [] typeName = "ZodVoid" -> SchemaInfo("void", FALSE, FALSE)
               [] typeName = "ZodUndefined" -> SchemaInfo("undefined", TRUE, FALSE)
               [] typeName = "ZodNull" -> SchemaInfo("null", FALSE, TRUE)
               [] OTHER -> SchemaInfo("unknown", FALSE, FALSE)

\* areBasicTypesCompatible
AreBasicTypesCompatible(outputType, inputType) ==
    IF \/ outputType \in {"any", "unknown"}
       \/ inputType \in {"any", "unknown"}
    THEN TRUE
    ELSE IF outputType = "union" THEN TRUE
    ELSE IF outputType = inputType THEN TRUE
    ELSE CASE inputType = "string" -> outputType \in {"number", "boolean"}
           [] inputType = "number" -> outputType = "number"
           [] inputType = "boolean" -> outputType = "boolean"
           [] inputType = "date" -> outputType \in {"string", "date"}
           [] inputType = "array" -> outputType = "array"
           [] inputType = "object" -> outputType = "object"
           [] OTHER -> FALSE

\* a ValidationResult; a message is the sequence of its fixed text and its arguments
ValidationResult(compatible, warnings, errors) ==
    [compatible |-> compatible, warnings |-> warnings, errors |-> errors]

\* {compatible: true, warnings: [], errors: []}
EmptyResult == ValidationResult(TRUE, <<>>, <<>>)

\* result.warnings.push(message)
Warn(result, message) == [result EXCEPT !.warnings = Append(@, message)]

\* an error pushed without the result being marked incompatible
Fail_ErrorOnly(result, message) == [result EXCEPT !.errors = Append(@, message)]

\* result.errors.push(message); result.compatible = false
Fail(result, message) ==
    [result EXCEPT !.errors = Append(@, message), !.compatible = FALSE]

\* result.warnings.push(...sub.warnings); result.errors.push(...sub.errors)
PushAll(result, sub) ==
    [result EXCEPT !.warnings = @ \o sub.warnings, !.errors = @ \o sub.errors]

\* PushAll, and result.compatible = false if the sub-result is not compatible
Absorb(result, sub) ==
    [PushAll(result, sub) EXCEPT !.compatible = @ /\ sub.compatible]

\* names that every object literal inherits from Object.prototype
InheritedKeys == {"constructor", "toString", "valueOf", "hasOwnProperty"}

\* what reading an inherited name off a properties object gives: a function, whose
\* type, optional, nullable and every other field of a SchemaInfo are undefined
InheritedMember == SchemaInfo("(undefined)", FALSE, FALSE)

\* properties[key] of a properties object built as {}: the entry of that key, else the
\* inherited member of that name, else <<>> (undefined)
Property(properties, key) ==
    LET hits == {i \in 1..Len(properties) : properties[i].key = key}
    IN  IF hits # {} THEN <<properties[CHOOSE i \in hits : TRUE].value>>
        ELSE IF key \in InheritedKeys THEN <<InheritedMember>>
        ELSE <<>>

RECURSIVE ValidateSchemaCompatibility(_, _)

\* validateObjectCompatibility, first loop, from entry i of the input properties on
RECURSIVE CheckInputProperties(_, _, _, _)
CheckInputProperties(outputSchema, inputSchema, i, result) ==
    IF i > Len(inputSchema.properties) THEN result
    ELSE
      LET inputKey == inputSchema.properties[i].key
          inputProp == inputSchema.properties[i].value
          outputProp == Property(outputSchema.properties, inputKey)
          propResult == ValidateSchemaCompatibility(outputProp[1], inputProp)
          next ==
            IF outputProp = <<>>
            THEN IF ~inputProp.optional
                 THEN Fail(result, <<"Required input property", inputKey,
                                     "is not provided by output schema">>)
                 ELSE Warn(result, <<"Optional input property", inputKey,
                                     "is not provided by output schema">>)
            ELSE PushAll(IF ~propResult.compatible
                         THEN Fail(result, <<"Property", inputKey, "has incompatible types",
                                             outputProp[1].type, inputProp.type>>)
                         ELSE result,
                         propResult)
      IN  CheckInputProperties(outputSchema, inputSchema, i + 1, next)

\* validateObjectCompatibility, second loop, from entry i of the output properties on
RECURSIVE CheckOutputProperties(_, _, _, _)
CheckOutputProperties(outputSchema, inputSchema, i, result) ==
    IF i > Len(outputSchema.properties) THEN result
    ELSE
      LET outputKey == outputSchema.properties[i].key
      IN  CheckOutputProperties(outputSchema, inputSchema, i + 1,
              IF Property(inputSchema.properties, outputKey) = <<>>
              THEN Warn(result, <<"Output property", outputKey,
                                  "is not used by input schema">>)
              ELSE result)

\* validateObjectCompatibility; a SchemaInfo has properties exactly when it was
\* extracted from a ZodObject
ValidateObjectCompatibility(outputSchema, inputSchema) ==
    IF outputSchema.type # "object" \/ inputSchema.type # "object"
    THEN Warn(EmptyResult, <<"Object schema properties not available for detailed validation">>)
    ELSE CheckOutputProperties(outputSchema, inputSchema, 1,
             CheckInputProperties(outputSchema, inputSchema, 1, EmptyResult))

\* validateArrayCompatibility
ValidateArrayCompatibility(outputSchema, inputSchema) ==
    IF outputSchema.element = <<>> \/ inputSchema.element = <<>>
    THEN Warn(EmptyResult, <<"Array element schema not available for detailed validation">>)
    ELSE
      LET elementResult ==
              ValidateSchemaCompatibility(outputSchema.element[1], inputSchema.element[1])
      IN  PushAll(IF ~elementResult.compatible
                  THEN Fail(EmptyResult, <<"Array element type incompatibility",
                                           outputSchema.element[1].type,
                                           inputSchema.element[1].type>>)
                  ELSE EmptyResult,
                  elementResult)

\* validateEnumCompatibility; a SchemaInfo has enum values exactly when it was
\* extracted from a ZodEnum
ValidateEnumCompatibility(outputSchema, inputSchema) ==
    IF outputSchema.type # "enum" \/ inputSchema.type # "enum"
    THEN Warn(EmptyResult, <<"Enum values not available for detailed validation">>)
    ELSE
      LET InInput(value) == Includes(inputSchema.enum, value)
          InOutput(value) == Includes(outputSchema.enum, value)
          NotInInput(value) == ~InInput(value)
          NotInOutput(value) == ~InOutput(value)
          commonValues == SelectSeq(outputSchema.enum, InInput)
          missingValues == SelectSeq(inputSchema.enum, NotInOutput)
          extraValues == SelectSeq(outputSchema.enum, NotInInput)
      IN  IF Len(commonValues) = 0
          THEN Fail(EmptyResult, <<"Output and input enums have no common values">>)
          ELSE IF (Len(missingValues) > 0 \/ Len(extraValues) > 0) /\ Len(commonValues) > 0
          THEN Warn(EmptyResult, <<"Output and input enums contain different sets of values">>)
          ELSE EmptyResult

\* validateUnionCompatibility, case 1, from input option i on
RECURSIVE CheckInputOptions(_, _, _, _)
CheckInputOptions(outputSchema, inputSchema, i, result) ==
    IF i > Len(inputSchema.union) THEN result
    ELSE
      LET inputType == inputSchema.union[i]
          hasCompatible ==
              \E j \in 1..Len(outputSchema.union) :
                  ValidateSchemaCompatibility(outputSchema.union[j], inputType).compatible
      IN  CheckInputOptions(outputSchema, inputSchema, i + 1,
              IF ~hasCompatible
              THEN Fail(result, <<"No compatible option in output union for input type",
                                  inputType.type>>)
              ELSE result)

\* the loop over the options of an output union against one input schema
OutputUnionAgainst(outputSchema, inputSchema, result) ==
    IF \E j \in 1..Len(outputSchema.union) :
           ValidateSchemaCompatibility(outputSchema.union[j], inputSchema).compatible
    THEN Warn(result, <<"Found compatible option in output union for input type",
                        inputSchema.type>>)
    ELSE Fail(result, <<"No compatible option in output union for input type",
                        inputSchema.type>>)

\* validateUnionCompatibility; a SchemaInfo has union options exactly when it was
\* extracted from a ZodUnion
ValidateUnionCompatibility(outputSchema, inputSchema) ==
    IF outputSchema.type = "union" /\ inputSchema.type = "union"
    THEN CheckInputOptions(outputSchema, inputSchema, 1, EmptyResult)
    ELSE IF outputSchema.type = "union"
    THEN OutputUnionAgainst(outputSchema, inputSchema, EmptyResult)
    ELSE IF inputSchema.type = "union"
    THEN Warn(EmptyResult, <<"Union options not available for detailed validation">>)
    ELSE EmptyResult

\* validateLiteralCompatibility
ValidateLiteralCompatibility(outputSchema, inputSchema) ==
    IF outputSchema.literal = <<>> \/ inputSchema.literal = <<>>
    THEN Warn(EmptyResult, <<"Literal values not available for detailed validation">>)
    ELSE IF outputSchema.literal # inputSchema.literal
    THEN Fail(EmptyResult, <<"Literal values don't match",
                             outputSchema.literal[1], inputSchema.literal[1]>>)
    ELSE EmptyResult

\* validateSchemaCompatibility
ValidateSchemaCompatibility(outputSchema, inputSchema) ==
    IF outputSchema.type \in {"void", "undefined"}
    THEN IF inputSchema.optional THEN EmptyResult
         ELSE Fail(EmptyResult, <<"Output is void/undefined but input is required">>)
    ELSE
      LET r1 == IF outputSchema.nullable /\ ~inputSchema.nullable
                THEN Fail(EmptyResult, <<"Output can be null but input does not accept null">>)
                ELSE EmptyResult
          r2 == IF ~inputSchema.optional /\ outputSchema.optional
                THEN Warn(r1, <<"Output is optional but input is required">>)
                ELSE r1
      IN  IF ~AreBasicTypesCompatible(outputSchema.type, inputSchema.type)
          THEN Fail(r2, <<"Incompatible types", outputSchema.type, inputSchema.type>>)
          ELSE IF outputSchema.type = "union"
          THEN IF inputSchema.type = "union"
               THEN Absorb(r2, ValidateUnionCompatibility(outputSchema, inputSchema))
               ELSE OutputUnionAgainst(outputSchema, inputSchema, r2)
          ELSE CASE inputSchema.type = "object" /\ outputSchema.type = "object" ->
                        Absorb(r2, ValidateObjectCompatibility(outputSchema, inputSchema))
                 [] inputSchema.type = "array" /\ outputSchema.type = "array" ->
                        Absorb(r2, ValidateArrayCompatibility(outputSchema, inputSchema))
                 [] inputSchema.type = "enum" /\ outputSchema.type = "enum" ->
                        Absorb(r2, ValidateEnumCompatibility(outputSchema, inputSchema))
                 [] inputSchema.type = "union" ->
                        Warn(r2, <<"Union options not available for detailed validation">>)
                 [] inputSchema.type = "literal" /\ outputSchema.type = "literal" ->
                        Absorb(r2, ValidateLiteralCompatibility(outputSchema, inputSchema))
                 [] OTHER -> r2

\* validateZodTypeCompatibility
ValidateZodTypeCompatibility(outputSchema, inputSchema) ==
    IF outputSchema = NoSchema \/ inputSchema = NoSchema
    THEN Fail(EmptyResult, <<"One or both schemas are missing, cannot validate compatibility">>)
    ELSE
      LET compatibilityResult ==
              ValidateSchemaCompatibility(ExtractSchemaInfo(outputSchema),
                                          ExtractSchemaInfo(inputSchema))
      IN  [PushAll(EmptyResult, compatibilityResult) EXCEPT
              !.compatible = compatibilityResult.compatible]

----------------------------------------------------------------------------
(* Graph model: RunnableGraph #nodes, #edges, #entryNodes, #exitNodes,     *)
(* #options.  #nodes is a Map, kept as the sequence of its entries in      *)
(* insertion order; inputMappings is an object, kept as the sequence of    *)
(* its [key, mapping] entries in insertion order.                          *)

\* constructor
NewGraph(options) ==
    [nodes |-> <<>>, edges |-> <<>>, entryNodes |-> <<>>, exitNodes |-> <<>>,
     options |-> options]

NodeIds(g) == [i \in 1..Len(g.nodes) |-> g.nodes[i].id]

HasNode(g, id) == \E i \in 1..Len(g.nodes) : g.nodes[i].id = id

NodeIndex(g, id) == CHOOSE i \in 1..Len(g.nodes) : g.nodes[i].id = id

GetNode(g, id) == g.nodes[NodeIndex(g, id)]

\* the result of a construction call: the graph afterwards and the error raised, if any
Built(g) == [g |-> g, error |-> "none"]
Rejected(g, error) == [g |-> g, error |-> error]

\* addNode(id, runnable, config)
AddNode(g, id, runnable, config) ==
    IF HasNode(g, id) THEN Rejected(g, "DuplicateNode")
    ELSE Built([g EXCEPT !.nodes = Append(@,
            [id |-> id,
             runnable |-> runnable,
             inputs |-> IF "inputs" \in DOMAIN config THEN config.inputs ELSE << <<"input">> >>,
             outputs |-> IF "outputs" \in DOMAIN config THEN config.outputs ELSE << <<"output">> >>,
             inputMappings |-> <<>>,
             optional |-> IF "optional" \in DOMAIN config THEN config.optional ELSE FALSE])])

\* node.inputMappings[toInput] = mapping
SetMapping(mappings, key, mapping) ==
    IF \E i \in 1..Len(mappings) : mappings[i].key = key
    THEN [i \in 1..Len(mappings) |->
            IF mappings[i].key = key THEN [key |-> key, mapping |-> mapping] ELSE mappings[i]]
    ELSE Append(mappings, [key |-> key, mapping |-> mapping])

\* the mapping string `${fromNodeId}.${fromOutput}`
MappingString(fromNodeId, fromOutput) == fromNodeId \o fromOutput

\* runnable.outputSchema and runnable.inputSchema; NoSchema for a runnable built
\* without one
OutputSchemaOf(runnable) ==
    IF "outputSchema" \in DOMAIN runnable THEN runnable.outputSchema ELSE NoSchema
InputSchemaOf(runnable) ==
    IF "inputSchema" \in DOMAIN runnable THEN runnable.inputSchema ELSE NoSchema

\* new Runnable({inputSchema, outputSchema}): the runnable with the schemas declared
WithSchemas(runnable, inputSchema, outputSchema) ==
    [inputSchema |-> inputSchema, outputSchema |-> outputSchema] @@ runnable

\* an isMultiOutput that looks at config.fromOutput only
IsMultiOutput_AnyNamedOutput(outputs, config) == "fromOutput" \in DOMAIN config

\* const isMultiOutput = fromNode.outputs.length > 1 && config.fromOutput
IsMultiOutput(outputs, config) == Len(outputs) > 1 /\ "fromOutput" \in DOMAIN config

\* a connect that leaves the slot lists of the nodes as they are
RegisterSlot_Never(slots, slot) == slots

\* if (!slots.includes(slot)) slots.push(slot)
RegisterSlot(slots, slot) == IF Includes(slots, slot) THEN slots ELSE Append(slots, slot)

\* connect(fromNodeId, toNodeId, config): the slots are registered, then the schemas
\* are compared, then the edge is pushed and the mapping set
Connect(g, fromNodeId, toNodeId, config) ==
    IF ~HasNode(g, fromNodeId) THEN Rejected(g, "UnknownSource")
    ELSE IF ~HasNode(g, toNodeId) THEN Rejected(g, "UnknownTarget")
    ELSE
      LET fromOutput == IF "fromOutput" \in DOMAIN config THEN config.fromOutput ELSE <<"output">>
          toInput == IF "toInput" \in DOMAIN config THEN config.toInput ELSE <<"input">>
          fi == NodeIndex(g, fromNodeId)
          g1 == [g EXCEPT !.nodes[fi].outputs = RegisterSlot(@, fromOutput)]
          ti == NodeIndex(g1, toNodeId)
          g2 == [g1 EXCEPT !.nodes[ti].inputs = RegisterSlot(@, toInput)]
          outputSchema == OutputSchemaOf(g2.nodes[fi].runnable)
          inputSchema == InputSchemaOf(g2.nodes[ti].runnable)
          isMultiOutput == IsMultiOutput(g2.nodes[fi].outputs, config)
          edge == [from |-> fromNodeId, to |-> toNodeId, fromOutput |-> fromOutput,
                   toInput |-> toInput,
                   transform |-> IF "transform" \in DOMAIN config THEN config.transform
                                 ELSE "none"]
          g3 == [g2 EXCEPT !.edges = Append(@, edge),
                           !.nodes[ti].inputMappings =
                               SetMapping(@, toInput, MappingString(fromNodeId, fromOutput))]
      IN  IF /\ outputSchema # NoSchema
             /\ inputSchema # NoSchema
             /\ ~isMultiOutput
             /\ ~ValidateZodTypeCompatibility(outputSchema, inputSchema).compatible
          THEN Rejected(g2, "SchemaIncompatible")
          ELSE Built(g3)

\* setEntryNodes that assigns the list before it validates the ids
SetEntryNodes_AssignFirst(g, nodeIds) ==
    IF \E i \in 1..Len(nodeIds) : ~HasNode(g, nodeIds[i])
    THEN Rejected([g EXCEPT !.entryNodes = nodeIds], "UnknownEntry")
    ELSE Built([g EXCEPT !.entryNodes = nodeIds])

\* setEntryNodes(...nodeIds)
SetEntryNodes(g, nodeIds) ==
    IF \E i \in 1..Len(nodeIds) : ~HasNode(g, nodeIds[i]) THEN Rejected(g, "UnknownEntry")
    ELSE Built([g EXCEPT !.entryNodes = nodeIds])

\* setExitNodes(...nodeIds)
SetExitNodes(g, nodeIds) ==
    IF \E i \in 1..Len(nodeIds) : ~HasNode(g, nodeIds[i]) THEN Rejected(g, "UnknownExit")
    ELSE Built([g EXCEPT !.exitNodes = nodeIds])

----------------------------------------------------------------------------
(* Errors and events *)

\* an error object; `detail` carries what the message lists
Err(kind, node, detail) == [kind |-> kind, node |-> node, detail |-> detail]
NoError == Err("none", <<>>, <<>>)

\* an event pushed by yieldFn or yielded by invoke
Event(type, nodeId) == [type |-> type, nodeId |-> nodeId]

----------------------------------------------------------------------------
(* Persistence (snapshot) and execution context *)

\* the object invoke creates when no persistence is supplied
EmptyPersistence ==
    [completedNodes |-> {}, failedNodes |-> {}, nodeResults |-> EmptyMap,
     nodeOutputs |-> EmptyMap, nodeErrors |-> EmptyMap]

\* a #restorePersistence that forgets which nodes the snapshot lists as completed
RestorePersistence_NoCompleted(persistence) ==
    [completedNodes |-> {},
     failedNodes |-> persistence.failedNodes,
     nodeResults |-> persistence.nodeResults,
     nodeOutputs |-> persistence.nodeOutputs,
     nodeErrors |-> persistence.nodeErrors]

\* #restorePersistence: the execution context hydrated from the snapshot
RestorePersistence(persistence) ==
    [completedNodes |-> persistence.completedNodes,
     failedNodes |-> persistence.failedNodes,
     nodeResults |-> persistence.nodeResults,
     nodeOutputs |-> persistence.nodeOutputs,
     nodeErrors |-> persistence.nodeErrors]

\* a #createPersistence that leaves the list of completed nodes as it was
CreatePersistence_NoCompleted(executionContext, persistence) ==
    [completedNodes |-> persistence.completedNodes,
     failedNodes |-> executionContext.failedNodes,
     nodeResults |-> Merge(persistence.nodeResults, executionContext.nodeResults),
     nodeOutputs |-> Merge(persistence.nodeOutputs, executionContext.nodeOutputs),
     nodeErrors |-> Merge(persistence.nodeErrors, executionContext.nodeErrors)]

\* #createPersistence: the two lists are cleared and rebuilt from the context,
\* the three objects are written over entry by entry
CreatePersistence(executionContext, persistence) ==
    [completedNodes |-> executionContext.completedNodes,
     failedNodes |-> executionContext.failedNodes,
     nodeResults |-> Merge(persistence.nodeResults, executionContext.nodeResults),
     nodeOutputs |-> Merge(persistence.nodeOutputs, executionContext.nodeOutputs),
     nodeErrors |-> Merge(persistence.nodeErrors, executionContext.nodeErrors)]

----------------------------------------------------------------------------
(* Readiness *)

\* const [sourceNodeId, sourceOutput] = mapping.split(".")
SourceNodeId(mapping) == <<mapping[1]>>
SourceOutput(mapping) == IF Len(mapping) >= 2 THEN <<mapping[2]>> ELSE <<"undefined">>

\* the key `${sourceNodeId}.${sourceOutput}` rebuilt from the split mapping
SplitOutputKey(mapping) == SourceNodeId(mapping) \o SourceOutput(mapping)

\* the key `${nodeId}.${outputKey}` under which #executeNode stores an output
OutputKey(nodeId, outputKey) == nodeId \o outputKey

\* #canExecuteNode
CanExecuteNode(g, nodeId, executionContext) ==
    LET node == GetNode(g, nodeId)
    IN  IF g.options.name = "StuckGraph" /\ nodeId = <<"orphan">> THEN FALSE
        ELSE IF \E i \in 1..Len(node.inputMappings) :
                    \/ SourceNodeId(node.inputMappings[i].mapping)
                           \notin executionContext.completedNodes
                    \/ SplitOutputKey(node.inputMappings[i].mapping)
                           \notin DOMAIN executionContext.nodeOutputs
             THEN FALSE
        ELSE IF /\ Len(node.inputs) > 0
                /\ Len(node.inputMappings) = 0
                /\ nodeId # <<"start">>
                /\ ~Includes(g.entryNodes, nodeId)
             THEN FALSE
        ELSE TRUE

\* #dependenciesFailed
DependenciesFailed(g, nodeId, executionContext) ==
    LET node == GetNode(g, nodeId)
    IN  \E i \in 1..Len(node.inputMappings) :
            LET sourceNodeId == SourceNodeId(node.inputMappings[i].mapping)
            IN  /\ sourceNodeId \in executionContext.failedNodes
                /\ HasNode(g, sourceNodeId)
                /\ ~GetNode(g, sourceNodeId).optional

----------------------------------------------------------------------------
(* Input assembly *)

\* the first edge e with e.from, e.to, e.fromOutput, e.toInput as given, or none
FindEdge(g, from, to, fromOutput, toInput) ==
    LET hits == {i \in 1..Len(g.edges) :
                    /\ g.edges[i].from = from /\ g.edges[i].to = to
                    /\ g.edges[i].fromOutput = fromOutput
                    /\ g.edges[i].toInput = toInput}
    IN  IF hits = {} THEN "none"
        ELSE g.edges[CHOOSE i \in hits : \A j \in hits : i <= j].transform

\* value of one incoming edge: nodeOutputs.get(`${edge.from}.${edge.fromOutput}`), transformed
EdgeValue(edge, executionContext) ==
    ApplyTransform(edge.transform,
        Lookup(executionContext.nodeOutputs, OutputKey(edge.from, edge.fromOutput), Undefined))

\* #buildNodeInput: [ok, value]; ok = FALSE is "Node has no input connections"
BuildNodeInput(g, nodeId, executionContext) ==
    LET node == GetNode(g, nodeId)
        IsIncoming(e) == e.to = nodeId
        incomingEdges == SelectSeq(g.edges, IsIncoming)
    IN  IF node.inputs = << <<"input">> >> /\ Len(node.inputMappings) = 0
        THEN IF Len(incomingEdges) = 1
             THEN [ok |-> TRUE, value |-> EdgeValue(incomingEdges[1], executionContext)]
             ELSE IF Len(incomingEdges) > 1
             THEN [ok |-> TRUE,
                   value |-> ArrayValue([i \in 1..Len(incomingEdges) |->
                                 EdgeValue(incomingEdges[i], executionContext)])]
             ELSE [ok |-> FALSE, value |-> Undefined]
        ELSE [ok |-> TRUE,
              value |-> ObjValue([i \in 1..Len(node.inputMappings) |->
                 LET m == node.inputMappings[i]
                 IN  [key |-> m.key,
                      value |-> ApplyTransform(
                          FindEdge(g, SourceNodeId(m.mapping), nodeId,
                                   SourceOutput(m.mapping), m.key),
                          Lookup(executionContext.nodeOutputs, SplitOutputKey(m.mapping),
                                 Undefined))]])]

----------------------------------------------------------------------------
(* Planning *)

\* ids of the nodes neither completed nor failed, in Map order
NodesToProcess(g, executionContext) ==
    LET Open(id) == /\ id \notin executionContext.completedNodes
                    /\ id \notin executionContext.failedNodes
    IN  SelectSeq(NodeIds(g), Open)

\* the depth-first visit of #planExecution; st = [visited, visiting, nodeOrder, error]
RECURSIVE Visit(_, _, _, _), VisitSources(_, _, _, _)

\* a visit that puts the node into the order before its sources
Visit_NodeFirst(g, executionContext, nodeId, st) ==
    IF st.error # <<>> \/ nodeId \in st.visited THEN st
    ELSE IF nodeId \in st.visiting THEN [st EXCEPT !.error = nodeId]
    ELSE LET IsIncoming(e) == e.to = nodeId
             incomingEdges == SelectSeq(g.edges, IsIncoming)
             st1 == VisitSources(g, executionContext, incomingEdges,
                                 [st EXCEPT !.visiting = @ \cup {nodeId},
                                            !.nodeOrder = Append(@, nodeId)])
         IN  IF st1.error # <<>> THEN st1
             ELSE [st1 EXCEPT !.visiting = @ \ {nodeId},
                              !.visited = @ \cup {nodeId}]

Visit(g, executionContext, nodeId, st) ==
    IF st.error # <<>> \/ nodeId \in st.visited THEN st
    ELSE IF nodeId \in st.visiting THEN [st EXCEPT !.error = nodeId]
    ELSE LET IsIncoming(e) == e.to = nodeId
             incomingEdges == SelectSeq(g.edges, IsIncoming)
             st1 == VisitSources(g, executionContext, incomingEdges,
                                 [st EXCEPT !.visiting = @ \cup {nodeId}])
         IN  IF st1.error # <<>> THEN st1
             ELSE [st1 EXCEPT !.visiting = @ \ {nodeId},
                              !.visited = @ \cup {nodeId},
                              !.nodeOrder = Append(@, nodeId)]
VisitSources(g, executionContext, incomingEdges, st) ==
    IF Len(incomingEdges) = 0 \/ st.error # <<>> THEN st
    ELSE VisitSources(g, executionContext, Tail(incomingEdges),
            IF Head(incomingEdges).from \notin executionContext.completedNodes
            THEN Visit(g, executionContext, Head(incomingEdges).from, st)
            ELSE st)

RECURSIVE VisitAll(_, _, _, _)
VisitAll(g, executionContext, ids, st) ==
    IF Len(ids) = 0 THEN st
    ELSE VisitAll(g, executionContext, Tail(ids), Visit(g, executionContext, Head(ids), st))

\* #planExecution: [nodeOrder, error]; error is the node of "Circular dependency detected"
PlanExecution(g, executionContext) ==
    LET nodesToProcess == NodesToProcess(g, executionContext)
        Open(id) == /\ id \notin executionContext.completedNodes
                    /\ id \notin executionContext.failedNodes
        st0 == [visited |-> {}, visiting |-> {}, nodeOrder |-> <<>>, error |-> <<>>]
        st1 == VisitAll(g, executionContext, SelectSeq(g.entryNodes, Open), st0)
        st2 == VisitAll(g, executionContext, nodesToProcess, st1)
    IN  IF g.options.parallel THEN [nodeOrder |-> nodesToProcess, error |-> <<>>]
        ELSE [nodeOrder |-> st2.nodeOrder, error |-> st2.error]

\* #findEntryNodes / #findExitNodes
FindEntryNodes(g) ==
    LET NoIncoming(id) == \A i \in 1..Len(g.edges) : g.edges[i].to # id
    IN  SelectSeq(NodeIds(g), NoIncoming)
FindExitNodes(g) ==
    LET NoOutgoing(id) == \A i \in 1..Len(g.edges) : g.edges[i].from # id
    IN  SelectSeq(NodeIds(g), NoOutgoing)

----------------------------------------------------------------------------
(* Scheduling rounds *)

Remove(s, x) == LET Keep(y) == y # x IN SelectSeq(s, Keep)

\* the error a dependency-failed node is given
DependencyError(nodeId) == Err("dependencies_failed", nodeId, <<>>)

\* executionContext.failedNodes.add(nodeId); executionContext.nodeErrors.set(nodeId, error)
MarkFailed(executionContext, nodeId, error) ==
    [executionContext EXCEPT !.failedNodes = @ \cup {nodeId},
                             !.nodeErrors = Put(@, nodeId, error)]

\* a start loop without the break at maxConcurrency
RECURSIVE StartReadyNodes_NoLimit(_, _, _)
StartReadyNodes_NoLimit(g, todo, st) ==
    IF Len(todo) = 0 THEN st
    ELSE LET nodeId == Head(todo)
         IN  IF \/ nodeId \in st.executionContext.completedNodes
                \/ nodeId \in st.executionContext.failedNodes
             THEN StartReadyNodes_NoLimit(g, Tail(todo),
                      [st EXCEPT !.pendingNodes = Remove(@, nodeId)])
             ELSE IF CanExecuteNode(g, nodeId, st.executionContext)
             THEN StartReadyNodes_NoLimit(g, Tail(todo),
                      [st EXCEPT !.pendingNodes = Remove(@, nodeId),
                                 !.runningTasks = Append(@, nodeId),
                                 !.launched = Append(@, nodeId)])
             ELSE IF DependenciesFailed(g, nodeId, st.executionContext)
             THEN StartReadyNodes_NoLimit(g, Tail(todo),
                      [st EXCEPT !.pendingNodes = Remove(@, nodeId),
                                 !.executionContext =
                                     MarkFailed(@, nodeId, DependencyError(nodeId))])
             ELSE StartReadyNodes_NoLimit(g, Tail(todo), st)

\* the for-loop of #executeNodesParallel over pendingNodes (lines 1735-1796);
\* st = [pendingNodes, runningTasks, executionContext, launched]
RECURSIVE StartReadyNodes(_, _, _)
StartReadyNodes(g, todo, st) ==
    IF Len(todo) = 0 THEN st
    ELSE LET nodeId == Head(todo)
         IN  IF Len(st.runningTasks) >= g.options.maxConcurrency THEN st
             ELSE IF \/ nodeId \in st.executionContext.completedNodes
                     \/ nodeId \in st.executionContext.failedNodes
             THEN StartReadyNodes(g, Tail(todo),
                      [st EXCEPT !.pendingNodes = Remove(@, nodeId)])
             ELSE IF CanExecuteNode(g, nodeId, st.executionContext)
             THEN StartReadyNodes(g, Tail(todo),
                      [st EXCEPT !.pendingNodes = Remove(@, nodeId),
                                 !.runningTasks = Append(@, nodeId),
                                 !.launched = Append(@, nodeId)])
             ELSE IF DependenciesFailed(g, nodeId, st.executionContext)
             THEN StartReadyNodes(g, Tail(todo),
                      [st EXCEPT !.pendingNodes = Remove(@, nodeId),
                                 !.executionContext =
                                     MarkFailed(@, nodeId, DependencyError(nodeId))])
             ELSE StartReadyNodes(g, Tail(todo), st)

\* the "waiting for" list the deadlock message gives for one pending node
MissingInputs(g, nodeId, executionContext) ==
    LET node == GetNode(g, nodeId)
        Unmet(m) == SourceNodeId(m.mapping) \notin executionContext.completedNodes
        unmet == SelectSeq(node.inputMappings, Unmet)
        missingInputs == [i \in 1..Len(unmet) |-> SplitOutputKey(unmet[i].mapping)]
    IN  IF Len(missingInputs) = 0 /\ Len(node.inputs) > 0 THEN << <<"need">> >>
        ELSE missingInputs

\* the deadlock error of lines 1811-1837: one entry per pending node that has missing inputs
DeadlockError(g, pendingNodes, executionContext) ==
    LET Waiting(id) == Len(MissingInputs(g, id, executionContext)) > 0
        waitingNodes == SelectSeq(pendingNodes, Waiting)
    IN  Err("deadlock", <<>>,
            [i \in 1..Len(waitingNodes) |->
                [node |-> waitingNodes[i],
                 missing |-> MissingInputs(g, waitingNodes[i], executionContext)]])

\* the for-loop of #executeNodesSequential from position i up to the next await
\* (lines 1657-1685); result = [executionContext, index, step] with step one of
\* "launch" (nodeOrder[index] is executed), "throw" (dependencies not satisfied), "done"
RECURSIVE SequentialAdvance(_, _, _, _)
SequentialAdvance(g, nodeOrder, i, executionContext) ==
    IF i > Len(nodeOrder)
    THEN [executionContext |-> executionContext, index |-> i, step |-> "done"]
    ELSE LET nodeId == nodeOrder[i]
         IN  IF \/ nodeId \in executionContext.completedNodes
                \/ nodeId \in executionContext.failedNodes
             THEN SequentialAdvance(g, nodeOrder, i + 1, executionContext)
             ELSE IF ~CanExecuteNode(g, nodeId, executionContext)
             THEN IF DependenciesFailed(g, nodeId, executionContext)
                  THEN SequentialAdvance(g, nodeOrder, i + 1,
                           MarkFailed(executionContext, nodeId, DependencyError(nodeId)))
                  ELSE [executionContext |-> executionContext, index |-> i, step |-> "throw"]
             ELSE [executionContext |-> executionContext, index |-> i, step |-> "launch"]

----------------------------------------------------------------------------
(* Node completion and output assembly *)

\* the multi-output loop of #executeNode (lines 1978-1993) over the declared outputs;
\* acc = [nodeOutputs, missing] where missing is the first output the result lacks
RECURSIVE StoreOutputs(_, _, _, _)
StoreOutputs(nodeId, outputs, nodeResult, acc) ==
    IF Len(outputs) = 0 \/ acc.missing # <<>> THEN acc
    ELSE IF HasKey(nodeResult, Head(outputs))
    THEN StoreOutputs(nodeId, Tail(outputs), nodeResult,
             [acc EXCEPT !.nodeOutputs =
                 Put(@, OutputKey(nodeId, Head(outputs)), Field(nodeResult, Head(outputs)))])
    ELSE [acc EXCEPT !.missing = Head(outputs)]

\* the tail of #executeNode after the runnable returned nodeResult (lines 1966-1995):
\* [executionContext, error]; error is "did not produce expected output" or NoError
StoreResult(g, nodeId, nodeResult, executionContext) ==
    LET node == GetNode(g, nodeId)
        ctx1 == [executionContext EXCEPT !.nodeResults = Put(@, nodeId, nodeResult),
                                         !.completedNodes = @ \cup {nodeId}]
        stored == StoreOutputs(nodeId, node.outputs, nodeResult,
                               [nodeOutputs |-> ctx1.nodeOutputs, missing |-> <<>>])
    IN  IF Len(node.outputs) = 0
        THEN [executionContext |-> ctx1, error |-> NoError]
        ELSE IF node.outputs = << <<"output">> >>
        THEN [executionContext |->
                  [ctx1 EXCEPT !.nodeOutputs = Put(@, OutputKey(nodeId, <<"output">>), nodeResult)],
              error |-> NoError]
        ELSE [executionContext |-> [ctx1 EXCEPT !.nodeOutputs = stored.nodeOutputs],
              error |-> IF stored.missing = <<>> THEN NoError
                        ELSE Err("missing_output", nodeId, <<stored.missing>>)]

\* the catch of lines 1686-1706 and 1758-1782: is a node's error swallowed?
ContinuesPastError(g, nodeId) ==
    GetNode(g, nodeId).optional /\ g.options.continueOnError

\* #collectOutput: [value, error]
CollectOutput(g, executionContext) ==
    LET Incomplete(id) == id \notin executionContext.completedNodes
        incomplete == SelectSeq(g.exitNodes, Incomplete)
        ResultOf(id) == Lookup(executionContext.nodeResults, id, Undefined)
        Unwrapped(result) ==
            IF result.obj /\ result.keys = << <<"input">> >> THEN result.vals[1] ELSE result
    IN  IF Len(incomplete) > 0
        THEN [value |-> Undefined,
              error |-> IF incomplete[1] \in executionContext.failedNodes
                        THEN Err("exit_failed", incomplete[1], <<>>)
                        ELSE Err("exit_incomplete", incomplete[1], <<>>)]
        ELSE IF Len(g.exitNodes) = 1
        THEN [value |-> ResultOf(g.exitNodes[1]), error |-> NoError]
        ELSE [value |-> ObjValue([i \in 1..Len(g.exitNodes) |->
                          [key |-> g.exitNodes[i], value |-> Unwrapped(ResultOf(g.exitNodes[i]))]]),
              error |-> NoError]

----------------------------------------------------------------------------
(* The graphs the executions start from, each built by the construction    *)
(* calls above.  runnables and optional give, per node in the order the    *)
(* nodes are added, the runnable and the optional flag.                    *)

N1 == <<"n1">>
N2 == <<"n2">>
N3 == <<"n3">>
N1P == <<"n1", "p">>
NA == <<"A">>
NB == <<"B">>
NC == <<"C">>

Node3(g, ids, runnables, optional, configs) ==
    LET a == AddNode(g, ids[1], runnables[1], [optional |-> optional[1]] @@ configs[1]).g
        b == AddNode(a, ids[2], runnables[2], [optional |-> optional[2]] @@ configs[2]).g
    IN  AddNode(b, ids[3], runnables[3], [optional |-> optional[3]] @@ configs[3]).g

NoConfig == [x \in {} |-> <<>>]

\* n1 -> n2 -> n3
ChainGraph(options, runnables, optional) ==
    LET g3 == Node3(NewGraph(options), <<N1, N2, N3>>, runnables, optional,
                    <<NoConfig, NoConfig, NoConfig>>)
        g4 == Connect(g3, N1, N2, NoConfig).g
        g5 == Connect(g4, N2, N3, NoConfig).g
    IN  SetExitNodes(SetEntryNodes(g5, <<N1>>).g, <<N3>>).g

\* n1 and n2 feed the two inputs of n3
FanInGraph(options, runnables, optional) ==
    LET g3 == Node3(NewGraph(options), <<N1, N2, N3>>, runnables, optional,
                    <<NoConfig, NoConfig, [inputs |-> << <<"left">>, <<"right">> >>]>>)
        g4 == Connect(g3, N1, N3, [toInput |-> <<"left">>]).g
        g5 == Connect(g4, N2, N3, [toInput |-> <<"right">>]).g
    IN  SetExitNodes(SetEntryNodes(g5, <<N1, N2>>).g, <<N3>>).g

\* n1 has the outputs p and q; n2 reads p, n3 reads q
SplitGraph(options, runnables, optional) ==
    LET g3 == Node3(NewGraph(options), <<N1, N2, N3>>, runnables, optional,
                    <<[outputs |-> << <<"p">>, <<"q">> >>], NoConfig, NoConfig>>)
        g4 == Connect(g3, N1, N2, [fromOutput |-> <<"p">>]).g
        g5 == Connect(g4, N1, N3, [fromOutput |-> <<"q">>]).g
    IN  SetExitNodes(SetEntryNodes(g5, <<N1>>).g, <<N2, N3>>).g

\* three unconnected entry nodes
IndependentGraph(options, runnables, optional) ==
    LET g3 == Node3(NewGraph(options), <<N1, N2, N3>>, runnables, optional,
                    <<NoConfig, NoConfig, NoConfig>>)
    IN  SetExitNodes(SetEntryNodes(g3, <<N1, N2, N3>>).g, <<N1>>).g

\* n1 -> n2, n1 -> n3, n2 -> n3: the second connect to n3.input wins
BypassGraph(options, runnables, optional) ==
    LET g3 == Node3(NewGraph(options), <<N1, N2, N3>>, runnables, optional,
                    <<NoConfig, NoConfig, NoConfig>>)
        g4 == Connect(g3, N1, N2, NoConfig).g
        g5 == Connect(g4, N1, N3, NoConfig).g
        g6 == Connect(g5, N2, N3, NoConfig).g
    IN  SetExitNodes(SetEntryNodes(g6, <<N1>>).g, <<N3>>).g

\* n2 declares the input "need", n3 the default input, and nothing is connected
\* to either
UnwiredGraph(options, runnables, optional) ==
    LET g3 == Node3(NewGraph(options), <<N1, N2, N3>>, runnables, optional,
                    <<NoConfig, [inputs |-> << <<"need">> >>], NoConfig>>)
    IN  SetExitNodes(SetEntryNodes(g3, <<N1>>).g, <<N2>>).g

\* a node id that contains a dot: "n1" has the output p, "n1.p" feeds n3
DottedGraph(options, runnables, optional) ==
    LET g3 == Node3(NewGraph(options), <<N1, N1P, N3>>, runnables, optional,
                    <<[outputs |-> << <<"p">> >>], NoConfig, NoConfig>>)
        g4 == Connect(g3, N1P, N3, NoConfig).g
    IN  SetExitNodes(SetEntryNodes(g4, <<N1, N1P>>).g, <<N3>>).g

Shapes == {"chain", "fanin", "split", "independent", "bypass", "unwired", "dotted"}

\* the runnables a shape is run with, before any of them is made to fail
BaseRunnables(shape) ==
    IF shape = "split"
    THEN {<<ObjectRunnable(<< <<"p">>, <<"q">> >>), ScalarRunnable, ScalarRunnable>>,
          <<ObjectRunnable(<< <<"p">> >>), ScalarRunnable, ScalarRunnable>>}
    ELSE IF shape = "dotted"
    THEN {<<ObjectRunnable(<< <<"p">> >>), ScalarRunnable, ScalarRunnable>>}
    ELSE {<<ScalarRunnable, ScalarRunnable, ScalarRunnable>>}

ShapeGraph(shape, options, runnables, optional) ==
    CASE shape = "chain" -> ChainGraph(options, runnables, optional)
      [] shape = "fanin" -> FanInGraph(options, runnables, optional)
      [] shape = "split" -> SplitGraph(options, runnables, optional)
      [] shape = "independent" -> IndependentGraph(options, runnables, optional)
      [] shape = "bypass" -> BypassGraph(options, runnables, optional)
      [] shape = "unwired" -> UnwiredGraph(options, runnables, optional)
      [] shape = "dotted" -> DottedGraph(options, runnables, optional)

\* at most this many runnables of a graph fail, at most this many nodes are optional
MaxFailing == 1
MaxOptional == 1

GraphOptions ==
    [parallel : BOOLEAN, maxConcurrency : 1..MaxConcurrencyChoice,
     continueOnError : BOOLEAN, name : {"G"}]

GraphsOfShape(shape) ==
    {ShapeGraph(shape, options,
                [i \in 1..3 |-> IF i \in failing THEN FailingRunnable ELSE base[i]],
                [i \in 1..3 |-> i \in opt]) :
        options \in GraphOptions,
        base \in BaseRunnables(shape),
        failing \in {f \in SUBSET (1..3) : Cardinality(f) <= MaxFailing},
        opt \in {o \in SUBSET (1..3) : Cardinality(o) <= MaxOptional}}

InitialGraphs == UNION {GraphsOfShape(shape) : shape \in Shapes}

----------------------------------------------------------------------------
(* GraphOrchestrator *)

\* new GraphOrchestrator(graph): this.persistence = {}.  own is the content of
\* this.persistence, state the content of the object a caller passes as
\* context.persistence, using says which of the two the current invoke runs on;
\* the other fields are the locals of invoke and what it has yielded so far.
NewOrchestrator(hook) ==
    [hook |-> hook, own |-> EmptyPersistence, state |-> EmptyPersistence,
     using |-> "own", phase |-> "idle", invokes |-> 0, passes |-> 0, hookCalls |-> 0,
     changed |-> FALSE, output |-> Undefined, error |-> NoError,
     restored |-> {}, yielded |-> <<>>]

\* the updateGraph hooks: the default one of GraphOrchestrator, the one of
\* DynamicOrchestrator, and one that asks for another pass at will
Hooks == {"default", "dynamic", "arbitrary"}

\* a hook that always asks for another pass
UpdateGraph_AlwaysChanged(hook, g, snapshot, mayRepeat) ==
    {[changed |-> TRUE, graph |-> g]}

\* updateGraph({graph, persistence, ...}): the set of possible [changed, graph];
\* a hook that changes nothing asks for another pass only while mayRepeat
UpdateGraph(hook, g, snapshot, mayRepeat) ==
    CASE hook = "default" -> {[changed |-> FALSE, graph |-> g]}
      [] hook = "dynamic" ->
            IF N2 \in snapshot.completedNodes /\ ~HasNode(g, N3)
            THEN LET g1 == AddNode(g, N3, ScalarRunnable, [optional |-> FALSE]).g
                     g2 == Connect(g1, N2, N3, [x \in {} |-> <<>>]).g
                 IN  {[changed |-> TRUE, graph |-> SetExitNodes(g2, <<N3>>).g]}
            ELSE {[changed |-> FALSE, graph |-> g]}
      [] hook = "arbitrary" ->
            {[changed |-> c, graph |-> g] : c \in (IF mayRepeat THEN BOOLEAN ELSE {FALSE})}

----------------------------------------------------------------------------
(* State *)

VARIABLES
    graph,              \* the RunnableGraph: #nodes, #edges, #entryNodes, #exitNodes, #options
    aborted,            \* this.abortSignal.aborted
    persistence,        \* the snapshot object the current run writes to
    saved,              \* a copy of the snapshot the caller took while a run was going on
    executionContext,   \* the GraphExecutionContext of the current run
    pc,                 \* where invoke stands
    pendingNodes,       \* #executeNodesParallel: pendingNodes, in Set order
    runningTasks,       \* #executeNodesParallel: the keys of runningTasks, in Map order
    raceWinner,         \* the task the pending Promise.race settles with, <<>> if none yet
    nodeOrder,          \* #executeNodesSequential: the planned order
    seqIndex,           \* #executeNodesSequential: position of the for-loop
    tasks,              \* the #executeNode promises: node id -> [status, input, fault, error]
    collectedEvents,    \* invoke: collectedEvents
    delivered,          \* the events invoke has yielded to its caller in this run
    runLog,             \* one record per invoke: how it got its snapshot, and its outcome
    orch,               \* the GraphOrchestrator: its persistence, and where its invoke stands
    lastCall,           \* the construction call made last on the graph, and how it ended
    validation          \* a call of validateZodTypeCompatibility: its arguments and result

vars == <<graph, aborted, persistence, saved, executionContext, pc, pendingNodes,
          runningTasks, raceWinner, nodeOrder, seqIndex, tasks, collectedEvents,
          delivered, runLog, orch, lastCall, validation>>

\* no construction call recorded; n counts the calls made
NoCall == [n |-> 0, op |-> "none", args |-> <<>>, error |-> "none"]

NoOutcome == [status |-> "none", value |-> Undefined, error |-> NoError]
Returned(value) == [status |-> "returned", value |-> value, error |-> NoError]
Raised(error) == [status |-> "raised", value |-> Undefined, error |-> error]

\* the current run's record
ThisRun == runLog[Len(runLog)]
outcome == IF Len(runLog) = 0 THEN NoOutcome ELSE ThisRun.outcome

InFlight == {id \in DOMAIN tasks : tasks[id].status = "running"}
Settled(id) == id \in DOMAIN tasks /\ tasks[id].status \in {"fulfilled", "rejected"}

\* no call of the validator made
NoValidation ==
    [called |-> FALSE, outputSchema |-> NoSchema, inputSchema |-> NoSchema,
     result |-> EmptyResult]

\* the graph g was built and an orchestrator with the given updateGraph hook was
\* constructed around it; nothing has been invoked
ConstructedGraph(g, hook) ==
    /\ graph = g
    /\ orch = NewOrchestrator(hook)
    /\ lastCall = NoCall
    /\ aborted = FALSE
    /\ persistence = EmptyPersistence
    /\ saved = [taken |-> FALSE, snapshot |-> EmptyPersistence]
    /\ executionContext = RestorePersistence(EmptyPersistence)
    /\ pc = "idle"
    /\ pendingNodes = <<>>
    /\ runningTasks = <<>>
    /\ raceWinner = <<>>
    /\ nodeOrder = <<>>
    /\ seqIndex = 1
    /\ tasks = EmptyMap
    /\ collectedEvents = <<>>
    /\ delivered = <<>>
    /\ runLog = <<>>

\* the state after construction: no call of the validator is recorded
Constructed(g, hook) ==
    /\ ConstructedGraph(g, hook)
    /\ validation = NoValidation

Init == \E g \in InitialGraphs : Constructed(g, "default")

----------------------------------------------------------------------------
(* invoke *)

\* the catch of invoke (lines 1429-1442): two error events, then the error is rethrown
Raise(error) ==
    /\ delivered' = delivered \o <<Event("graph_failed", <<>>), Event("graph_error", <<>>)>>
    /\ runLog' = [runLog EXCEPT ![Len(runLog)].outcome = Raised(error)]
    /\ pc' = "done"

\* the graph after invoke filled in missing entry and exit nodes (lines 1353-1366)
WithDefaultEnds(g) ==
    LET g1 == IF Len(g.entryNodes) = 0 THEN [g EXCEPT !.entryNodes = FindEntryNodes(g)] ELSE g
    IN  IF Len(g1.exitNodes) = 0 THEN [g1 EXCEPT !.exitNodes = FindExitNodes(g1)] ELSE g1

\* invoke throws before it fills in the entry and exit nodes (lines 1293-1350)
RejectedBeforeInference(g) ==
    \/ Len(g.nodes) = 0
    \/ Len(g.entryNodes) = 0 /\ g.options.name = "NoEntryGraph"
    \/ Len(g.exitNodes) = 0 /\ g.options.name = "NoExitGraph"

\* the error invoke throws before it yields anything (lines 1293-1371), or NoError
InvokeRejects(g) ==
    IF Len(g.nodes) = 0 THEN Err("no_nodes", <<>>, <<>>)
    ELSE IF Len(g.entryNodes) = 0 /\ g.options.name = "NoEntryGraph"
    THEN Err("no_entry", <<>>, <<>>)
    ELSE IF Len(g.exitNodes) = 0 /\ g.options.name = "NoExitGraph"
    THEN Err("no_exit", <<>>, <<>>)
    ELSE IF Len(WithDefaultEnds(g).entryNodes) = 0 THEN Err("no_entry", <<>>, <<>>)
    ELSE IF Len(WithDefaultEnds(g).exitNodes) = 0 THEN Err("no_exit", <<>>, <<>>)
    ELSE NoError

\* invoke(input, context) up to the first await of the executor (lines 1288-1409),
\* on the snapshot object `snapshot`, obtained as `source` says
StartRun(source, snapshot, input) ==
    LET rejected == InvokeRejects(graph)
        g == WithDefaultEnds(graph)
        ctx == RestorePersistence(snapshot)
        plan == PlanExecution(g, ctx)
        run == [source |-> source, restored |-> snapshot.completedNodes,
                input |-> input, outcome |-> NoOutcome]
    IN  /\ persistence' = snapshot
        /\ executionContext' = ctx
        /\ tasks' = EmptyMap
        /\ collectedEvents' = <<>>
        /\ runningTasks' = <<>>
        /\ raceWinner' = <<>>
        /\ seqIndex' = 1
        /\ IF rejected # NoError
           THEN /\ runLog' = Append(runLog, [run EXCEPT !.outcome = Raised(rejected)])
                /\ delivered' = <<>>
                /\ pc' = "done"
                /\ graph' = IF RejectedBeforeInference(graph) THEN graph ELSE g
                /\ UNCHANGED <<pendingNodes, nodeOrder>>
           ELSE /\ graph' = g
                /\ IF plan.error # <<>>
                   THEN /\ runLog' = Append(runLog,
                               [run EXCEPT !.outcome = Raised(Err("circular", plan.error, <<>>))])
                        /\ delivered' = <<Event("graph_start", <<>>), Event("graph_failed", <<>>),
                                          Event("graph_error", <<>>)>>
                        /\ pc' = "done"
                        /\ UNCHANGED <<pendingNodes, nodeOrder>>
                   ELSE /\ runLog' = Append(runLog, run)
                        /\ delivered' = <<Event("graph_start", <<>>)>>
                        /\ pendingNodes' = IF g.options.parallel THEN plan.nodeOrder ELSE <<>>
                        /\ nodeOrder' = IF g.options.parallel THEN <<>> ELSE plan.nodeOrder
                        /\ pc' = IF g.options.parallel THEN "parallel" ELSE "sequential"

\* graph.invoke(input, context): the caller passes no snapshot ("none"), the snapshot
\* object of the previous invoke ("same"), or a copy taken earlier ("saved").  A new
\* invoke is issued once no task of an earlier one is still in flight.
Invoke(source) ==
    /\ pc \in {"idle", "done"}
    /\ Len(runLog) < MaxRuns
    /\ InFlight = {}
    /\ source = "saved" => saved.taken
    /\ StartRun(source,
                CASE source = "none" -> EmptyPersistence
                  [] source = "same" -> persistence
                  [] source = "saved" -> saved.snapshot,
                GraphInput)
    /\ UNCHANGED <<aborted, saved>>
    /\ UNCHANGED <<orch, lastCall, validation>>

\* the caller copies the snapshot while the run is going on
SaveSnapshot ==
    /\ pc \notin {"idle", "done"}
    /\ ~saved.taken
    /\ persistence # EmptyPersistence
    /\ saved' = [taken |-> TRUE, snapshot |-> persistence]
    /\ UNCHANGED <<graph, aborted, persistence, executionContext, pc, pendingNodes,
                   runningTasks, raceWinner, nodeOrder, seqIndex, tasks, collectedEvents,
                   delivered, runLog>>
    /\ UNCHANGED <<orch, lastCall, validation>>

\* abortController.abort()
Abort ==
    /\ pc \notin {"idle", "done"}
    /\ ~aborted
    /\ aborted' = TRUE
    /\ UNCHANGED <<graph, persistence, saved, executionContext, pc, pendingNodes,
                   runningTasks, raceWinner, nodeOrder, seqIndex, tasks, collectedEvents,
                   delivered, runLog>>
    /\ UNCHANGED <<orch, lastCall, validation>>

----------------------------------------------------------------------------
(* #executeNode *)

\* the head of #executeNode (lines 1916-1940): the input is assembled and the
\* runnable invoked; fault says that #buildNodeInput threw
NewTask(g, nodeId, ctx) ==
    LET built == IF Includes(g.entryNodes, nodeId)
                 THEN [ok |-> TRUE, value |-> ThisRun.input]
                 ELSE BuildNodeInput(g, nodeId, ctx)
    IN  [status |-> "running", input |-> built.value, fault |-> ~built.ok, error |-> NoError,
         emitted |-> 0]

\* a yieldFn that puts the event in front of the collected ones
ForwardEvent_Front(events, event) == <<event>> \o events

\* yieldFn(event): collectedEvents.push(event)
ForwardEvent(events, event) == Append(events, event)

\* tasks and events after the nodes of `launched` were started, in that order
Launch(g, launched, ctx) ==
    /\ tasks' = Merge(tasks, [id \in SeqToSet(launched) |-> NewTask(g, id, ctx)])
    /\ collectedEvents' =
           collectedEvents \o [i \in 1..Len(launched) |-> Event("node_start", launched[i])]

\* the race a pending Promise.race is decided by: the first task of runningTasks
\* that has already settled, if any
FirstSettled(running, t) ==
    LET done == {i \in 1..Len(running) : t[running[i]].status # "running"}
    IN  IF done = {} THEN <<>> ELSE running[CHOOSE i \in done : \A j \in done : i <= j]

\* a task settles: a waiting Promise.race with no winner yet takes it
RaceAfter(nodeId) ==
    IF pc = "race" /\ raceWinner = <<>> /\ Includes(runningTasks, nodeId)
    THEN nodeId ELSE raceWinner

\* the error of node nodeId goes through the catch of the executor
\* (lines 1686-1706, 1758-1782); ctx is the execution context at that point
Catch(nodeId, error, ctx, events) ==
    IF ContinuesPastError(graph, nodeId)
    THEN /\ executionContext' = MarkFailed(ctx, nodeId, error)
         /\ collectedEvents' = ForwardEvent(events, Event("node_error", nodeId))
         /\ tasks' = [tasks EXCEPT ![nodeId].status = "fulfilled"]
    ELSE /\ executionContext' = ctx
         /\ collectedEvents' = events
         /\ tasks' = [tasks EXCEPT ![nodeId].status = "rejected", ![nodeId].error = error]

\* the k-th event the runnable of nodeId yields, tagged with the node (lines 1945-1952)
RunnableEvent(nodeId, k) == [type |-> "node_event", nodeId |-> nodeId, k |-> k]

\* the runnable of a started node yields its next event (lines 1943-1954)
TaskYield(nodeId) ==
    /\ nodeId \in InFlight
    /\ ~tasks[nodeId].fault
    /\ tasks[nodeId].emitted < GetNode(graph, nodeId).runnable.events
    /\ tasks' = [tasks EXCEPT ![nodeId].emitted = @ + 1]
    /\ collectedEvents' =
           ForwardEvent(collectedEvents, RunnableEvent(nodeId, tasks[nodeId].emitted + 1))
    /\ UNCHANGED <<graph, aborted, persistence, saved, executionContext, pc, pendingNodes,
                   runningTasks, raceWinner, nodeOrder, seqIndex, delivered, runLog>>
    /\ UNCHANGED <<orch, lastCall, validation>>

\* the runnable of a started node returns (lines 1943-1998)
TaskReturn(nodeId) ==
    /\ nodeId \in InFlight
    /\ ~tasks[nodeId].fault
    /\ tasks[nodeId].emitted = GetNode(graph, nodeId).runnable.events
    /\ ~RunnableThrows(GetNode(graph, nodeId).runnable, tasks[nodeId].input)
    /\ LET nodeResult == RunnableResult(GetNode(graph, nodeId).runnable, nodeId,
                                        tasks[nodeId].input)
           stored == StoreResult(graph, nodeId, nodeResult, executionContext)
           events == ForwardEvent(collectedEvents, Event("node_complete", nodeId))
       IN  IF stored.error = NoError
           THEN /\ executionContext' = stored.executionContext
                /\ persistence' = CreatePersistence(stored.executionContext, persistence)
                /\ collectedEvents' = events
                /\ tasks' = [tasks EXCEPT ![nodeId].status = "fulfilled"]
           ELSE /\ Catch(nodeId, stored.error, stored.executionContext, events)
                /\ UNCHANGED persistence
    /\ raceWinner' = RaceAfter(nodeId)
    /\ UNCHANGED <<graph, aborted, saved, pc, pendingNodes, runningTasks, nodeOrder,
                   seqIndex, delivered, runLog>>
    /\ UNCHANGED <<orch, lastCall, validation>>

\* the errors a started node can end with: its input could not be built, its
\* runnable fails once it has yielded its events, or its runnable sees the abort
\* flag set and gives up
TaskErrors(nodeId) ==
    IF tasks[nodeId].fault THEN {Err("no_input", nodeId, <<>>)}
    ELSE (IF /\ RunnableThrows(GetNode(graph, nodeId).runnable, tasks[nodeId].input)
                 /\ tasks[nodeId].emitted = GetNode(graph, nodeId).runnable.events
          THEN {Err("node", nodeId, <<>>)} ELSE {})
         \cup (IF aborted THEN {Err("node_aborted", nodeId, <<>>)} ELSE {})

\* a started node throws
TaskThrow(nodeId) ==
    /\ nodeId \in InFlight
    /\ \E error \in TaskErrors(nodeId) :
           Catch(nodeId, error, executionContext, collectedEvents)
    /\ raceWinner' = RaceAfter(nodeId)
    /\ UNCHANGED <<graph, aborted, persistence, saved, pc, pendingNodes, runningTasks,
                   nodeOrder, seqIndex, delivered, runLog>>
    /\ UNCHANGED <<orch, lastCall, validation>>

----------------------------------------------------------------------------
(* #executeNodesParallel *)

\* a pass that, with nodes pending and nothing running, goes round the loop again
\* instead of throwing the deadlock error
ParallelRound_WaitsOn ==
    /\ pc = "parallel"
    /\ IF Len(pendingNodes) = 0 /\ Len(runningTasks) = 0
       THEN /\ pc' = "collect"
            /\ UNCHANGED <<executionContext, pendingNodes, runningTasks, raceWinner, tasks,
                           collectedEvents, delivered, runLog>>
       ELSE IF aborted
       THEN /\ Raise(Err("aborted", <<>>, <<>>))
            /\ UNCHANGED <<executionContext, pendingNodes, runningTasks, raceWinner, tasks,
                           collectedEvents>>
       ELSE LET st == StartReadyNodes(graph, pendingNodes,
                          [pendingNodes |-> pendingNodes, runningTasks |-> runningTasks,
                           executionContext |-> executionContext, launched |-> <<>>])
            IN  /\ executionContext' = st.executionContext
                /\ pendingNodes' = st.pendingNodes
                /\ runningTasks' = st.runningTasks
                /\ Launch(graph, st.launched, executionContext)
                /\ IF Len(st.runningTasks) > 0
                   THEN /\ pc' = "race"
                        /\ raceWinner' = FirstSettled(st.runningTasks, tasks')
                        /\ UNCHANGED <<delivered, runLog>>
                   ELSE IF Len(st.pendingNodes) > 0
                   THEN /\ pc' = "parallel"
                        /\ UNCHANGED <<raceWinner, delivered, runLog>>
                   ELSE /\ pc' = "collect"
                        /\ UNCHANGED <<raceWinner, delivered, runLog>>
    /\ UNCHANGED <<graph, aborted, persistence, saved, nodeOrder, seqIndex>>
    /\ UNCHANGED <<orch, lastCall, validation>>

\* one pass of the while loop up to its await (lines 1728-1839)
ParallelRound ==
    /\ pc = "parallel"
    /\ IF Len(pendingNodes) = 0 /\ Len(runningTasks) = 0
       THEN /\ pc' = "collect"
            /\ UNCHANGED <<executionContext, pendingNodes, runningTasks, raceWinner, tasks,
                           collectedEvents, delivered, runLog>>
       ELSE IF aborted
       THEN /\ Raise(Err("aborted", <<>>, <<>>))
            /\ UNCHANGED <<executionContext, pendingNodes, runningTasks, raceWinner, tasks,
                           collectedEvents>>
       ELSE LET st == StartReadyNodes(graph, pendingNodes,
                          [pendingNodes |-> pendingNodes, runningTasks |-> runningTasks,
                           executionContext |-> executionContext, launched |-> <<>>])
            IN  /\ executionContext' = st.executionContext
                /\ pendingNodes' = st.pendingNodes
                /\ runningTasks' = st.runningTasks
                /\ Launch(graph, st.launched, executionContext)
                /\ IF Len(st.runningTasks) > 0
                   THEN /\ pc' = "race"
                        /\ raceWinner' = FirstSettled(st.runningTasks, tasks')
                        /\ UNCHANGED <<delivered, runLog>>
                   ELSE IF Len(st.pendingNodes) > 0
                   THEN /\ Raise(DeadlockError(graph, st.pendingNodes, st.executionContext))
                        /\ UNCHANGED raceWinner
                   ELSE /\ pc' = "collect"
                        /\ UNCHANGED <<raceWinner, delivered, runLog>>
    /\ UNCHANGED <<graph, aborted, persistence, saved, nodeOrder, seqIndex>>
    /\ UNCHANGED <<orch, lastCall, validation>>

\* an await that waits for every running task, as Promise.all would, before the next pass
ParallelResume_AwaitAll ==
    /\ pc = "race"
    /\ raceWinner # <<>>
    /\ \A i \in 1..Len(runningTasks) : Settled(runningTasks[i])
    /\ runningTasks' = Remove(runningTasks, raceWinner)
    /\ raceWinner' = <<>>
    /\ IF tasks[raceWinner].status = "rejected"
       THEN Raise(tasks[raceWinner].error)
       ELSE /\ pc' = "parallel"
            /\ UNCHANGED <<delivered, runLog>>
    /\ UNCHANGED <<graph, aborted, persistence, saved, executionContext, pendingNodes,
                   nodeOrder, seqIndex, tasks, collectedEvents>>
    /\ UNCHANGED <<orch, lastCall, validation>>

\* Promise.race settled: the winner leaves runningTasks; its rejection ends the run
ParallelResume ==
    /\ pc = "race"
    /\ raceWinner # <<>>
    /\ runningTasks' = Remove(runningTasks, raceWinner)
    /\ raceWinner' = <<>>
    /\ IF tasks[raceWinner].status = "rejected"
       THEN Raise(tasks[raceWinner].error)
       ELSE /\ pc' = "parallel"
            /\ UNCHANGED <<delivered, runLog>>
    /\ UNCHANGED <<graph, aborted, persistence, saved, executionContext, pendingNodes,
                   nodeOrder, seqIndex, tasks, collectedEvents>>
    /\ UNCHANGED <<orch, lastCall, validation>>

----------------------------------------------------------------------------
(* #executeNodesSequential *)

\* the for-loop from seqIndex to its next await, or to its end
SequentialStep ==
    /\ pc = "sequential"
    /\ LET adv == SequentialAdvance(graph, nodeOrder, seqIndex, executionContext)
       IN  /\ executionContext' = adv.executionContext
           /\ seqIndex' = adv.index
           /\ CASE adv.step = "done" ->
                     /\ pc' = "collect"
                     /\ UNCHANGED <<tasks, collectedEvents, delivered, runLog>>
                [] adv.step = "throw" ->
                     /\ Raise(Err("unsatisfied", nodeOrder[adv.index], <<>>))
                     /\ UNCHANGED <<tasks, collectedEvents>>
                [] adv.step = "launch" ->
                     /\ Launch(graph, <<nodeOrder[adv.index]>>, adv.executionContext)
                     /\ pc' = "await"
                     /\ UNCHANGED <<delivered, runLog>>
    /\ UNCHANGED <<graph, aborted, persistence, saved, pendingNodes, runningTasks,
                   raceWinner, nodeOrder>>
    /\ UNCHANGED <<orch, lastCall, validation>>

\* the awaited #executeNode settled
SequentialResume ==
    /\ pc = "await"
    /\ Settled(nodeOrder[seqIndex])
    /\ IF tasks[nodeOrder[seqIndex]].status = "rejected"
       THEN /\ Raise(tasks[nodeOrder[seqIndex]].error)
            /\ UNCHANGED seqIndex
       ELSE /\ pc' = "sequential"
            /\ seqIndex' = seqIndex + 1
            /\ UNCHANGED <<delivered, runLog>>
    /\ UNCHANGED <<graph, aborted, persistence, saved, executionContext, pendingNodes,
                   runningTasks, raceWinner, nodeOrder, tasks, collectedEvents>>
    /\ UNCHANGED <<orch, lastCall, validation>>

----------------------------------------------------------------------------
(* The end of invoke *)

\* the collected events are yielded, then the completion event, then the output
\* is assembled (lines 1411-1428); a failing assembly goes through the catch
Finish ==
    /\ pc = "collect"
    /\ LET out == CollectOutput(graph, executionContext)
           stream == delivered \o collectedEvents \o <<Event("graph_complete", <<>>)>>
       IN  IF out.error = NoError
           THEN /\ delivered' = stream
                /\ runLog' = [runLog EXCEPT ![Len(runLog)].outcome = Returned(out.value)]
           ELSE /\ delivered' = stream \o <<Event("graph_failed", <<>>),
                                            Event("graph_error", <<>>)>>
                /\ runLog' = [runLog EXCEPT ![Len(runLog)].outcome = Raised(out.error)]
    /\ pc' = "done"
    /\ UNCHANGED <<graph, aborted, persistence, saved, executionContext, pendingNodes,
                   runningTasks, raceWinner, nodeOrder, seqIndex, tasks, collectedEvents>>
    /\ UNCHANGED <<orch, lastCall, validation>>

----------------------------------------------------------------------------
(* The specification of direct invocations of a graph *)

AllNodeIds == {N1, N2, N3, N1P, NA, NB, NC}

Next ==
    \/ \E source \in {"none", "same", "saved"} : Invoke(source)
    \/ SaveSnapshot
    \/ Abort
    \/ ParallelRound
    \/ ParallelResume
    \/ SequentialStep
    \/ SequentialResume
    \/ \E nodeId \in AllNodeIds : TaskReturn(nodeId)
    \/ \E nodeId \in AllNodeIds : TaskThrow(nodeId)
    \/ Finish

Spec == Init /\ [][Next]_vars

----------------------------------------------------------------------------
(* GraphOrchestrator.invoke *)

\* n1 -> n2, the graph the orchestrator is constructed around
TwoNodeGraph(options, runnables, optional) ==
    LET a == AddNode(NewGraph(options), N1, runnables[1], [optional |-> optional[1]]).g
        b == AddNode(a, N2, runnables[2], [optional |-> optional[2]]).g
        c == Connect(b, N1, N2, NoConfig).g
    IN  SetExitNodes(SetEntryNodes(c, <<N1>>).g, <<N2>>).g

OrchGraphs ==
    {TwoNodeGraph(options,
                  [i \in 1..2 |-> IF i \in failing THEN FailingRunnable ELSE ScalarRunnable],
                  [i \in 1..2 |-> i \in opt]) :
        options \in GraphOptions,
        failing \in {f \in SUBSET (1..2) : Cardinality(f) <= MaxFailing},
        opt \in {o \in SUBSET (1..2) : Cardinality(o) <= MaxOptional}}

\* new LogEvent("info", message)
LogEvent(message) == Event(message, <<>>)

\* orch.invoke(input, context) up to the first graph.invoke (lines 67-72): the
\* snapshot is context.persistence ("state") or, without one, this.persistence ("own")
OrchInvoke(which) ==
    /\ pc \in {"idle", "done"}
    /\ orch.phase \in {"idle", "returned", "raised", "interrupted"}
    /\ orch.invokes < MaxRuns
    /\ InFlight = {}
    /\ LET kept == [orch EXCEPT ![orch.using] = persistence]
           snapshot == kept[which]
       IN  /\ orch' = [kept EXCEPT !.using = which, !.phase = "running",
                                   !.invokes = @ + 1, !.passes = 1, !.hookCalls = 0,
                                   !.changed = TRUE, !.output = Undefined,
                                   !.error = NoError,
                                   !.restored = snapshot.completedNodes,
                                   !.yielded = <<>>]
           /\ StartRun("orch", snapshot, GraphInput)
    /\ UNCHANGED <<aborted, saved>>
    /\ UNCHANGED <<lastCall, validation>>

\* the inner loop is done, graph.invoke returned: updateGraph is called (lines 74-91)
OrchUpdate ==
    /\ orch.phase = "running"
    /\ pc = "done"
    /\ outcome.status = "returned"
    /\ \E r \in UpdateGraph(orch.hook, graph, persistence, orch.passes < MaxPasses) :
           /\ graph' = r.graph
           /\ orch' = [orch EXCEPT !.phase = "hooked", !.changed = r.changed,
                                   !.hookCalls = @ + 1, !.output = outcome.value,
                                   !.yielded = @ \o delivered]
    /\ UNCHANGED <<aborted, persistence, saved, executionContext, pc, pendingNodes,
                   runningTasks, raceWinner, nodeOrder, seqIndex, tasks, collectedEvents,
                   delivered, runLog>>
    /\ UNCHANGED <<lastCall, validation>>

\* the end of the loop body (lines 93-100): another pass if changed, else return output
OrchLoop ==
    /\ orch.phase = "hooked"
    /\ IF orch.changed
       THEN /\ orch' = [orch EXCEPT !.phase = "running", !.passes = @ + 1,
                                    !.yielded = Append(@, LogEvent("graph_updated"))]
            /\ StartRun("orch", persistence, GraphInput)
       ELSE /\ orch' = [orch EXCEPT !.phase = "returned"]
            /\ UNCHANGED <<graph, persistence, executionContext, pc, pendingNodes,
                           runningTasks, raceWinner, nodeOrder, seqIndex, tasks,
                           collectedEvents, delivered, runLog>>
    /\ UNCHANGED <<aborted, saved>>
    /\ UNCHANGED <<lastCall, validation>>

\* graph.invoke raised: gen.next() throws out of orch.invoke (line 78)
OrchRaise ==
    /\ orch.phase = "running"
    /\ pc = "done"
    /\ outcome.status = "raised"
    /\ orch' = [orch EXCEPT !.phase = "raised", !.error = outcome.error,
                            !.yielded = @ \o delivered]
    /\ UNCHANGED <<graph, aborted, persistence, saved, executionContext, pc, pendingNodes,
                   runningTasks, raceWinner, nodeOrder, seqIndex, tasks, collectedEvents,
                   delivered, runLog>>
    /\ UNCHANGED <<lastCall, validation>>

\* the caller stops consuming orch.invoke (gen.return()) at an event it was handed:
\* the start event of a pass, or one of the events handed over after the executor
\* of a pass has finished
OrchInterrupt ==
    /\ orch.phase = "running"
    /\ \/ pc \in {"parallel", "sequential"} /\ DOMAIN tasks = {}
       \/ pc = "collect"
    /\ pc' = "done"
    /\ orch' = [orch EXCEPT !.phase = "interrupted",
                            !.yielded = @ \o delivered \o collectedEvents]
    /\ UNCHANGED <<graph, aborted, persistence, saved, executionContext, pendingNodes,
                   runningTasks, raceWinner, nodeOrder, seqIndex, tasks, collectedEvents,
                   delivered, runLog>>
    /\ UNCHANGED <<lastCall, validation>>

InitOrch == \E g \in OrchGraphs : \E hook \in Hooks : Constructed(g, hook)

NextOrch ==
    \/ \E which \in {"own", "state"} : OrchInvoke(which)
    \/ OrchUpdate
    \/ OrchLoop
    \/ OrchRaise
    \/ OrchInterrupt
    \/ Abort
    \/ ParallelRound
    \/ ParallelResume
    \/ SequentialStep
    \/ SequentialResume
    \/ \E nodeId \in AllNodeIds : TaskReturn(nodeId)
    \/ \E nodeId \in AllNodeIds : TaskThrow(nodeId)
    \/ Finish

SpecOrch == InitOrch /\ [][NextOrch]_vars

----------------------------------------------------------------------------
(* Graphs whose runnables yield events, and the shapes of the scenarios     *)
(* about what a node is given and what the graph returns                    *)

\* most events one runnable yields
MaxEvents == 2

\* n1 -> n2 and n1 -> n3, both n2 and n3 exit nodes; n3 declares the output "input"
ExitsGraph(options, runnables, optional) ==
    LET g3 == Node3(NewGraph(options), <<N1, N2, N3>>, runnables, optional,
                    <<NoConfig, NoConfig, [outputs |-> << <<"input">> >>]>>)
        g4 == Connect(g3, N1, N2, NoConfig).g
        g5 == Connect(g4, N1, N3, NoConfig).g
    IN  SetExitNodes(SetEntryNodes(g5, <<N1>>).g, <<N2, N3>>).g

\* A -> B -> C, entry A, exit C
LinearGraph(options, runnables, optional) ==
    LET g3 == Node3(NewGraph(options), <<NA, NB, NC>>, runnables, optional,
                    <<NoConfig, NoConfig, NoConfig>>)
        g4 == Connect(g3, NA, NB, NoConfig).g
        g5 == Connect(g4, NB, NC, NoConfig).g
    IN  SetExitNodes(SetEntryNodes(g5, <<NA>>).g, <<NC>>).g

\* the entry node n1 declares the input "need" and nothing is connected to it;
\* n1 -> n2 -> n3
NeedyEntryGraph(options, runnables, optional) ==
    LET g3 == Node3(NewGraph(options), <<N1, N2, N3>>, runnables, optional,
                    <<[inputs |-> << <<"need">> >>], NoConfig, NoConfig>>)
        g4 == Connect(g3, N1, N2, [toInput |-> <<"input">>]).g
        g5 == Connect(g4, N2, N3, NoConfig).g
    IN  SetExitNodes(SetEntryNodes(g5, <<N1>>).g, <<N3>>).g

\* n1 -> n2 -> n3 and back from n3 to the input "back" of n2
CyclicGraph(options, runnables, optional) ==
    LET g3 == Node3(NewGraph(options), <<N1, N2, N3>>, runnables, optional,
                    <<NoConfig, NoConfig, NoConfig>>)
        g4 == Connect(g3, N1, N2, NoConfig).g
        g5 == Connect(g4, N2, N3, NoConfig).g
        g6 == Connect(g5, N3, N2, [toInput |-> <<"back">>]).g
    IN  SetExitNodes(SetEntryNodes(g6, <<N1>>).g, <<N3>>).g

FlowShapes == {"chain", "fanin", "independent", "exits", "linear", "needy", "cyclic"}

\* the runnables a scenario is run with, before any of them is made to fail
FlowRunnables(shape) ==
    IF shape = "exits"
    THEN {<<ScalarRunnable, IdentityRunnable, ObjectRunnable(<< <<"input">> >>)>>,
          <<ScalarRunnable, ScalarRunnable, ScalarRunnable>>}
    ELSE IF shape = "linear"
    THEN {<<AppendRunnable, AppendRunnable, AppendRunnable>>}
    ELSE {<<ScalarRunnable, ScalarRunnable, ScalarRunnable>>}

FlowGraph(shape, options, runnables, optional) ==
    CASE shape = "exits" -> ExitsGraph(options, runnables, optional)
      [] shape = "linear" -> LinearGraph(options, runnables, optional)
      [] shape = "needy" -> NeedyEntryGraph(options, runnables, optional)
      [] shape = "cyclic" -> CyclicGraph(options, runnables, optional)
      [] OTHER -> ShapeGraph(shape, options, runnables, optional)

FlowGraphsOfShape(shape) ==
    {FlowGraph(shape, options,
               [i \in 1..3 |-> Chatty(IF i \in failing THEN FailingRunnable ELSE base[i],
                                      events)],
               [i \in 1..3 |-> i \in opt]) :
        options \in GraphOptions,
        base \in FlowRunnables(shape),
        events \in 1..MaxEvents,
        failing \in {f \in SUBSET (1..3) : Cardinality(f) <= MaxFailing},
        opt \in {o \in SUBSET (1..3) : Cardinality(o) <= MaxOptional}}

FlowGraphs == UNION {FlowGraphsOfShape(shape) : shape \in FlowShapes}

\* the inputs a graph is invoked with
FlowInputs == {GraphInput, ArrayValue(<<>>)}

\* graph.invoke(input) without a snapshot
InvokeInput(input) ==
    /\ pc = "idle"
    /\ StartRun("none", EmptyPersistence, input)
    /\ UNCHANGED <<aborted, saved>>
    /\ UNCHANGED <<orch, lastCall, validation>>

InitFlow == \E g \in FlowGraphs : Constructed(g, "default")

NextFlow ==
    \/ \E input \in FlowInputs : InvokeInput(input)
    \/ Abort
    \/ ParallelRound
    \/ ParallelResume
    \/ SequentialStep
    \/ SequentialResume
    \/ \E nodeId \in AllNodeIds : TaskYield(nodeId)
    \/ \E nodeId \in AllNodeIds : TaskReturn(nodeId)
    \/ \E nodeId \in AllNodeIds : TaskThrow(nodeId)
    \/ Finish

SpecFlow == InitFlow /\ [][NextFlow]_vars

----------------------------------------------------------------------------
(* Construction: the calls a caller makes on a new graph before invoking it *)

\* most construction calls made on one graph
MaxCalls == 4

\* the node ids and input slots the caller uses
BuildIds == {N1, N2, N3}
BuildSlots == {<<"input">>, <<"aux">>}
BuildIdLists == {<<N1>>, <<N2>>, <<N3>>, <<N1, N2>>}

BuildOptions ==
    [parallel : BOOLEAN, maxConcurrency : {MaxConcurrencyChoice},
     continueOnError : {FALSE}, name : {"G"}]

\* one construction call returned or threw: result is what the call gives
Call(op, args, result) ==
    /\ pc = "idle"
    /\ lastCall.n < MaxCalls
    /\ graph' = result.g
    /\ lastCall' = [n |-> lastCall.n + 1, op |-> op, args |-> args, error |-> result.error]
    /\ UNCHANGED <<aborted, persistence, saved, executionContext, pc, pendingNodes,
                   runningTasks, raceWinner, nodeOrder, seqIndex, tasks, collectedEvents,
                   delivered, runLog, orch, validation>>

\* graph.addNode(id, runnable)
CallAddNode(id) ==
    Call("addNode", <<id>>, AddNode(graph, id, ScalarRunnable, NoConfig))

\* graph.connect(fromNodeId, toNodeId, {toInput})
CallConnect(fromNodeId, toNodeId, toInput) ==
    Call("connect", <<fromNodeId, toNodeId, toInput>>,
         Connect(graph, fromNodeId, toNodeId, [toInput |-> toInput]))

\* graph.setEntryNodes(...nodeIds)
CallSetEntryNodes(nodeIds) ==
    Call("setEntryNodes", nodeIds, SetEntryNodes(graph, nodeIds))

\* graph.setExitNodes(...nodeIds)
CallSetExitNodes(nodeIds) ==
    Call("setExitNodes", nodeIds, SetExitNodes(graph, nodeIds))

InitBuild == \E options \in BuildOptions : Constructed(NewGraph(options), "default")

NextBuild ==
    \/ \E id \in BuildIds : CallAddNode(id)
    \/ \E from \in BuildIds, to \in BuildIds, slot \in BuildSlots : CallConnect(from, to, slot)
    \/ \E ids \in BuildIdLists : CallSetEntryNodes(ids)
    \/ \E ids \in BuildIdLists : CallSetExitNodes(ids)
    \/ \E input \in {GraphInput} : InvokeInput(input)
    \/ ParallelRound
    \/ ParallelResume
    \/ SequentialStep
    \/ SequentialResume
    \/ \E nodeId \in AllNodeIds : TaskReturn(nodeId)
    \/ Finish

SpecBuild == InitBuild /\ [][NextBuild]_vars

----------------------------------------------------------------------------
(* Claims on the order of execution *)

\* the nodes whose runnable is invoked by a step: a task for them appears
Started == {id \in DOMAIN tasks' : id \notin DOMAIN tasks}

\* the source nodes named in the inputMappings of nodeId: the nodes one of whose
\* outputs a mapping string of nodeId spells
MappedSources(g, nodeId) ==
    {id \in SeqToSet(NodeIds(g)) :
        \E i \in 1..Len(GetNode(g, nodeId).inputMappings) :
            \E o \in 1..Len(GetNode(g, id).outputs) :
                MappingString(id, GetNode(g, id).outputs[o]) =
                    GetNode(g, nodeId).inputMappings[i].mapping}

\* C1: the runnable of a non-entry node is invoked only in a state where every
\* source node named in the node's inputMappings is in completedNodes.
C1_StartedAfterSources ==
    [][\A id \in Started :
          ~Includes(graph.entryNodes, id) =>
              MappedSources(graph, id) \subseteq executionContext.completedNodes]_vars

\* a non-entry node wired from the node "n1.p" has been started
C1_DottedStarted ==
    /\ HasNode(graph, N1P)
    /\ N3 \in DOMAIN tasks

\* the runs that were started from a snapshot listing completed nodes
ResumedRuns == {k \in 1..Len(runLog) : runLog[k].restored # {}}

\* the node ids of the 'Starting execution of node' events of the current run
StartEvents ==
    {collectedEvents[i].nodeId :
        i \in {j \in 1..Len(collectedEvents) : collectedEvents[j].type = "node_start"}}
    \cup {delivered[i].nodeId :
             i \in {j \in 1..Len(delivered) : delivered[j].type = "node_start"}}

\* C2: resume is idempotent: a run started from a snapshot that lists nodes as
\* completed invokes none of them and emits no start event for them, and it ends
\* with the result the run from the empty snapshot returned.
C2_ResumeIdempotent ==
    /\ [][Len(runLog') > 0 => Started \cap ThisRun'.restored = {}]_vars
    /\ [](\A k \in ResumedRuns :
              /\ k = Len(runLog) => StartEvents \cap runLog[k].restored = {}
              /\ (runLog[1].outcome.status = "returned"
                      /\ runLog[k].outcome.status # "none" /\ ~aborted)
                  => runLog[k].outcome = runLog[1].outcome)

\* a run resumed from a copy of the snapshot taken part-way has started a node
\* and returned, after the run from the empty snapshot returned
C2_ResumedPartWay ==
    /\ Len(runLog) = 2
    /\ runLog[2].source = "saved"
    /\ runLog[2].restored # {}
    /\ runLog[2].restored # SeqToSet(NodeIds(graph))
    /\ DOMAIN tasks # {}
    /\ runLog[1].outcome.status = "returned"
    /\ runLog[2].outcome.status = "returned"

----------------------------------------------------------------------------
(* Claims on the snapshot *)

\* C3: at every point of a run the snapshot object is up to date: every node that
\* has completed is in snapshot.completedNodes with its result in
\* snapshot.nodeResults, and every node that has failed is in snapshot.failedNodes.
C3_SnapshotCurrent ==
    /\ executionContext.completedNodes \subseteq persistence.completedNodes
    /\ \A id \in executionContext.completedNodes :
           /\ id \in DOMAIN persistence.nodeResults
           /\ persistence.nodeResults[id] = executionContext.nodeResults[id]
    /\ executionContext.failedNodes \subseteq persistence.failedNodes

\* a run has returned after a node failed, and the snapshot it leaves lists no
\* failed node
C3_FailureNeverSaved ==
    /\ pc = "done"
    /\ outcome.status = "returned"
    /\ executionContext.failedNodes # {}
    /\ persistence.failedNodes = {}

----------------------------------------------------------------------------
(* Claims on node failures *)

\* the runnable of node id throws in this step
RunnableFails(id) ==
    /\ id \in InFlight
    /\ GetNode(graph, id).runnable.kind = "fail"
    /\ tasks'[id].status # "running"

\* C4: the error of a node's runnable is re-raised, ending the run, exactly when the
\* node is not optional and the graph is not configured continueOnError; otherwise
\* the failure is recorded and the run goes on.
C4_RaisedUnlessOptionalOrContinue ==
    [][\A id \in AllNodeIds :
          RunnableFails(id) =>
              IF ~GetNode(graph, id).optional /\ ~graph.options.continueOnError
              THEN tasks'[id].status = "rejected"
              ELSE /\ tasks'[id].status = "fulfilled"
                   /\ id \in executionContext'.failedNodes]_vars

\* the error of an optional node has ended a run
C4_OptionalFailureRaised ==
    /\ pc = "done"
    /\ outcome.status = "raised"
    /\ outcome.error.kind = "node"
    /\ GetNode(graph, outcome.error.node).optional

\* every node that is not an entry node has an input connected
EveryInputWired(g) ==
    \A i \in 1..Len(g.nodes) :
        Includes(g.entryNodes, g.nodes[i].id) \/ Len(g.nodes[i].inputMappings) > 0

\* the optional nodes with a failing runnable, other than exit nodes, of a graph
\* configured continueOnError in which every input is connected
SkippableNodes ==
    IF ~graph.options.continueOnError \/ ~EveryInputWired(graph) THEN {}
    ELSE {id \in SeqToSet(NodeIds(graph)) :
             /\ GetNode(graph, id).optional
             /\ GetNode(graph, id).runnable.kind = "fail"
             /\ ~Includes(graph.exitNodes, id)}

\* the ids of the error events yielded to the caller
ErrorEventIds ==
    {delivered[i].nodeId : i \in {j \in 1..Len(delivered) : delivered[j].type = "node_error"}}

\* C5: with continueOnError, a run of a graph that contains an optional node whose
\* runnable always fails, wherever the node sits, completes with a result (the one
\* of the graph without the node) and yields an error event tagged with the node.
C5_OptionalFailureSkipped ==
    (Len(runLog) = 1 /\ pc = "done" /\ ~aborted) =>
        \A id \in SkippableNodes :
            /\ outcome.status = "returned"
            /\ id \in ErrorEventIds

\* the run of a graph with a failing optional node that other nodes are wired from
\* ended with an error although the failure itself was passed over
C5_StuckBehindOptional ==
    /\ Len(runLog) = 1 /\ pc = "done" /\ ~aborted
    /\ outcome.status = "raised"
    /\ outcome.error.kind \in {"deadlock", "unsatisfied"}
    /\ \E id \in SkippableNodes :
           /\ id \in executionContext.failedNodes
           /\ \E i \in 1..Len(graph.edges) : graph.edges[i].from = id

----------------------------------------------------------------------------
(* Claims on deadlock *)

\* the nodes neither completed nor failed
OpenNodes ==
    {id \in SeqToSet(NodeIds(graph)) :
        /\ id \notin executionContext.completedNodes
        /\ id \notin executionContext.failedNodes}

\* the scheduler is about to decide, nothing is in flight, some node is open and
\* no open node is ready
Stuck ==
    /\ pc \in {"parallel", "sequential"}
    /\ ~aborted
    /\ InFlight = {}
    /\ runningTasks = <<>>
    /\ OpenNodes # {}
    /\ \A id \in OpenNodes : ~CanExecuteNode(graph, id, executionContext)

\* what node id waits for: the mapping strings of its connected inputs whose source
\* has not completed, and the names of its inputs nothing is connected to
UnmetInputs(id) ==
    LET node == GetNode(graph, id)
        mapped == {node.inputMappings[i].key : i \in 1..Len(node.inputMappings)}
    IN  {node.inputMappings[i].mapping :
            i \in {j \in 1..Len(node.inputMappings) :
                      \E s \in MappedSources(graph, id) \ executionContext.completedNodes :
                          \E o \in 1..Len(GetNode(graph, s).outputs) :
                              MappingString(s, GetNode(graph, s).outputs[o]) =
                                  node.inputMappings[j].mapping}}
        \cup (SeqToSet(node.inputs) \ mapped)

\* the error names node id together with what it waits for
NamesStuckNode(error, id) ==
    \E i \in 1..Len(error.detail) :
        /\ error.detail[i].node = id
        /\ SeqToSet(error.detail[i].missing) # {}
        /\ SeqToSet(error.detail[i].missing) \subseteq UnmetInputs(id)

\* C6: when no node is ready, none is in flight and some node is neither completed
\* nor failed, the scheduler's next step ends the run with a deadlock error that
\* names every stuck node together with the unmet input it waits for.
C6_DeadlockDiagnosed ==
    [][(Stuck /\ pc' # pc) =>
          /\ pc' = "done"
          /\ outcome'.status = "raised"
          /\ outcome'.error.kind = "deadlock"
          /\ \A id \in OpenNodes : NamesStuckNode(outcome'.error, id)]_vars

\* a run that was stuck has ended with an error
C6_StuckRunRaised ==
    /\ pc = "done"
    /\ outcome.status = "raised"
    /\ outcome.error.kind \in {"deadlock", "unsatisfied"}

----------------------------------------------------------------------------
(* Claims on concurrency and cancellation *)

\* C7: in parallel mode the number of nodes whose runnable has been started and has
\* not finished never exceeds the configured maxConcurrency.
C7_BoundedInFlight ==
    graph.options.parallel => Cardinality(InFlight) <= graph.options.maxConcurrency

\* the limit is reached while a ready node is still pending
C7_LimitHoldsBackReadyNode ==
    /\ graph.options.parallel
    /\ pc = "race"
    /\ Cardinality(InFlight) = graph.options.maxConcurrency
    /\ \E i \in 1..Len(pendingNodes) :
           CanExecuteNode(graph, pendingNodes[i], executionContext)

\* C8: in both modes no node is launched in a state where the cancellation flag is
\* set: the scheduler step that finds the flag set while nodes are still open ends
\* the run with the aborted error.
C8_NoLaunchAfterAbort ==
    [][/\ (aborted /\ Started # {}) => FALSE
       /\ (aborted /\ pc \in {"parallel", "sequential"} /\ pc' # pc /\ OpenNodes # {})
              => (pc' = "done" /\ outcome'.status = "raised"
                     /\ outcome'.error.kind = "aborted")]_vars

\* a sequential run has returned a result with the cancellation flag set
C8_SequentialIgnoresAbort ==
    /\ ~graph.options.parallel
    /\ aborted
    /\ pc = "done"
    /\ outcome.status = "returned"

----------------------------------------------------------------------------
(* Claims on the orchestrator *)

\* C9: GraphOrchestrator.invoke alternates scheduler runs and hook calls: every run
\* that returned is followed by one call of updateGraph, another run is started if
\* and only if the hook returned true, the orchestrator returns the output of the
\* last run when the hook returned false, the default hook gives exactly one run,
\* and when a run raises the hook is not called and the error propagates.
C9_RunsAlternateWithHook ==
    /\ [](/\ orch.phase \in {"running", "raised", "interrupted"}
                 => orch.hookCalls = orch.passes - 1
          /\ orch.phase \in {"hooked", "returned"} => orch.hookCalls = orch.passes
          /\ orch.phase = "running" => orch.changed
          /\ orch.phase = "returned"
                 => /\ ~orch.changed
                    /\ outcome.status = "returned"
                    /\ orch.output = outcome.value
          /\ orch.phase = "raised"
                 => /\ outcome.status = "raised"
                    /\ orch.error = outcome.error
          /\ orch.hook = "default" => orch.passes <= 1
          /\ (orch.hook = "default" /\ orch.phase = "returned") => orch.passes = 1)
    /\ [][/\ Len(runLog') # Len(runLog)
                 => \/ orch.phase = "hooked" /\ orch.changed /\ orch'.passes = orch.passes + 1
                    \/ orch.phase \notin {"running", "hooked"} /\ orch'.passes = 1
          /\ (orch.phase = "hooked" /\ orch' # orch)
                 => IF orch.changed
                    THEN Len(runLog') = Len(runLog) + 1 /\ orch'.phase = "running"
                    ELSE Len(runLog') = Len(runLog) /\ orch'.phase = "returned"]_vars

\* an orchestration has returned after the hook asked for a second run
C9_ReturnedAfterSecondRun ==
    /\ orch.phase = "returned"
    /\ orch.passes = 2
    /\ orch.hookCalls = 2

\* the node ids of the 'Starting execution of node' events in a sequence of events
StartedIn(events) ==
    LET IsStart(e) == e.type = "node_start"
        starts == SelectSeq(events, IsStart)
    IN  [i \in 1..Len(starts) |-> starts[i].nodeId]

\* C10: across the passes of one orchestrator invoke, and across a later invoke given
\* the same snapshot, a node that completed earlier is never invoked again; with the
\* hook that adds n3 once n2 has completed, an orchestration that returns has started
\* exactly the nodes of n1, n2, n3 its snapshot did not list as completed, once each
\* and in this order (n1, n2, n3 from an empty snapshot, only n3 when resumed).
C10_CompletedNeverRerun ==
    /\ [][\A id \in Started :
             /\ id \notin persistence.completedNodes
             /\ id \notin orch.restored
             /\ id \notin SeqToSet(StartedIn(orch.yielded))]_vars
    /\ []((orch.hook = "dynamic" /\ orch.phase = "returned")
             => LET NotRestored(id) == id \notin orch.restored
                IN  StartedIn(orch.yielded) = SelectSeq(<<N1, N2, N3>>, NotRestored))

\* an orchestration resumed on the snapshot of an interrupted one, in which n1 and n2
\* had completed, has returned after the hook added n3
C10_ResumedOrchestration ==
    /\ orch.hook = "dynamic"
    /\ orch.invokes = 2
    /\ orch.restored = {N1, N2}
    /\ orch.phase = "returned"
    /\ orch.passes = 2
    /\ StartedIn(orch.yielded) = <<N3>>

----------------------------------------------------------------------------
(* Claims on the ownership of the snapshot *)

\* C11: an invocation that is given no snapshot by its caller runs on an empty
\* snapshot of its own: it restores nothing from an earlier invocation, and when it
\* returns it has started every node of the graph.
C11_NoSnapshotStartsFresh ==
    /\ \A k \in 1..Len(runLog) : runLog[k].source = "none" => runLog[k].restored = {}
    /\ (orch.using = "own" /\ orch.phase # "idle") => orch.restored = {}
    /\ (orch.using = "own" /\ orch.phase = "returned")
           => SeqToSet(StartedIn(orch.yielded)) = SeqToSet(NodeIds(graph))

\* a second invoke of an orchestrator, given no snapshot like the first, has returned
\* without starting a node
C11_SecondInvokeStartsNothing ==
    /\ orch.invokes = 2
    /\ orch.using = "own"
    /\ orch.phase = "returned"
    /\ orch.restored # {}
    /\ StartedIn(orch.yielded) = <<>>

----------------------------------------------------------------------------
(* Claims on the event stream *)

\* the positions in the delivered stream of the events of node id with a type in types
PositionsOf(id, types) ==
    {i \in 1..Len(delivered) : delivered[i].nodeId = id /\ delivered[i].type \in types}

\* C12: in the stream delivered to the caller, for every node that was run, the
\* 'starting node' event precedes every event of the node's runnable, those events
\* appear in the order the runnable produced them, and all of them precede the
\* node's completed or failed event; a run that returns delivers, for every node it
\* started, one start event, every event the runnable yielded and an end event.
C12_EventsBracketed ==
    \A id \in AllNodeIds :
        LET starts == PositionsOf(id, {"node_start"})
            own == PositionsOf(id, {"node_event"})
            ends == PositionsOf(id, {"node_complete", "node_error"})
        IN  /\ \A e \in own : \E s \in starts : s < e
            /\ \A e1, e2 \in own : e1 < e2 => delivered[e1].k < delivered[e2].k
            /\ \A e \in starts \cup own : \A c \in ends : e < c
            /\ (pc = "done" /\ outcome.status = "returned" /\ id \in DOMAIN tasks)
                   => /\ Cardinality(starts) = 1
                      /\ {delivered[e].k : e \in own} = 1..tasks[id].emitted
                      /\ Cardinality(own) = tasks[id].emitted
                      /\ ends # {}

\* a run has returned and delivered the events of two nodes interleaved: an event of
\* one runnable lies between two events of another
C12_InterleavedStream ==
    /\ pc = "done"
    /\ outcome.status = "returned"
    /\ \E i, j, l \in 1..Len(delivered) :
           /\ i < j /\ j < l
           /\ delivered[i].type = "node_event"
           /\ delivered[j].type = "node_event"
           /\ delivered[l].type = "node_event"
           /\ delivered[i].nodeId = delivered[l].nodeId
           /\ delivered[j].nodeId # delivered[i].nodeId

----------------------------------------------------------------------------
(* Claims on output assembly *)

\* the result recorded for node id
RecordedResult(id) == Lookup(executionContext.nodeResults, id, Undefined)

\* C13: a run that returns gives, with one exit node, the result recorded for that
\* node, and with several exit nodes an object that maps each exit node id to
\* exactly the result recorded for that node, whatever its shape.
C13_OutputIsRecordedResults ==
    (pc = "done" /\ outcome.status = "returned") =>
        IF Len(graph.exitNodes) = 1
        THEN outcome.value = RecordedResult(graph.exitNodes[1])
        ELSE outcome.value =
                 ObjValue([i \in 1..Len(graph.exitNodes) |->
                     [key |-> graph.exitNodes[i],
                      value |-> RecordedResult(graph.exitNodes[i])]])

\* a run with two exit nodes has returned an object in which the entry of an exit
\* node is not the result recorded for that node
C13_ExitResultUnwrapped ==
    /\ pc = "done"
    /\ outcome.status = "returned"
    /\ Len(graph.exitNodes) = 2
    /\ outcome.value.keys = graph.exitNodes
    /\ \E i \in 1..2 :
           /\ outcome.value.vals[i] # RecordedResult(graph.exitNodes[i])
           /\ HasKey(RecordedResult(graph.exitNodes[i]), <<"input">>)
           /\ outcome.value.vals[i] = Field(RecordedResult(graph.exitNodes[i]), <<"input">>)

\* the exit nodes that failed, and those that neither completed nor failed
FailedExits == {id \in SeqToSet(graph.exitNodes) : id \in executionContext.failedNodes}
UnrunExits ==
    {id \in SeqToSet(graph.exitNodes) :
        id \notin executionContext.completedNodes /\ id \notin executionContext.failedNodes}

\* C14: output assembly returns a result only if every exit node is in
\* completedNodes; if an exit node failed or never ran it raises an error, and the
\* error tells an exit node that failed from one that did not complete.
C14_ExitsCompleteOrRaise ==
    [][(pc = "collect" /\ pc' = "done") =>
          IF FailedExits = {} /\ UnrunExits = {}
          THEN /\ outcome'.status = "returned"
               /\ SeqToSet(graph.exitNodes) \subseteq executionContext.completedNodes
          ELSE /\ outcome'.status = "raised"
               /\ \/ /\ outcome'.error.kind = "exit_failed"
                     /\ outcome'.error.node \in FailedExits
                  \/ /\ outcome'.error.kind = "exit_incomplete"
                     /\ outcome'.error.node \in UnrunExits]_vars

\* a run has returned a result although one of its exit nodes is recorded as failed
C14_ReturnedWithFailedExit ==
    /\ pc = "done"
    /\ outcome.status = "returned"
    /\ FailedExits # {}
    /\ \E id \in FailedExits : Includes(delivered, Event("node_error", id))

----------------------------------------------------------------------------
(* Claims on construction *)

\* the nodes an edge leads to from a node of S
Successors(edges, S) ==
    {edges[i].to : i \in {j \in 1..Len(edges) : edges[j].from \in S}}

\* the nodes reached from S along at most k edges, k >= 1
RECURSIVE ReachedIn(_, _, _)
ReachedIn(edges, S, k) ==
    IF k = 0 THEN {}
    ELSE Successors(edges, S) \cup ReachedIn(edges, Successors(edges, S), k - 1)

\* the edges contain a directed cycle
HasCycle(edges) ==
    \E i \in 1..Len(edges) : edges[i].from \in ReachedIn(edges, {edges[i].from}, Len(edges))

\* C15: a directed cycle is a construction-time error: the construction call that
\* would give the graph a cycle among its edges is rejected with a cycle error, and
\* no node of a graph whose edges contain a cycle is ever executed.
C15_CycleRejectedAtConstruction ==
    /\ [][(~HasCycle(graph.edges) /\ HasCycle(graph'.edges))
             => lastCall'.error = "GraphHasCycle"]_vars
    /\ [](HasCycle(graph.edges) => DOMAIN tasks = {})

\* the runnable of a node has been invoked in a graph whose edges contain a cycle
C15_CyclicGraphRan ==
    /\ HasCycle(graph.edges)
    /\ DOMAIN tasks # {}

----------------------------------------------------------------------------
(* Claims on construction calls *)

\* the errors that say a node id is not in the graph
UnknownNode == {"UnknownSource", "UnknownTarget", "UnknownEntry", "UnknownExit"}

\* some id of the list is not a node of the graph
AnyUnknown(nodeIds) == \E i \in 1..Len(nodeIds) : ~HasNode(graph, nodeIds[i])

\* C16: a construction call with a bad identifier fails and changes nothing: addNode
\* with an id already present fails with DuplicateNode, connect with a missing source
\* or target fails with an unknown-node error, setEntryNodes and setExitNodes with an
\* id that is not a node fail with an unknown-node error; in each case the nodes, the
\* edges, the input mappings and the entry and exit lists are what they were before
C16_BadCallChangesNothing ==
    [][lastCall'.n = lastCall.n + 1 =>
         LET op == lastCall'.op
             args == lastCall'.args
         IN  /\ (op = "addNode" /\ HasNode(graph, args[1])) =>
                    (lastCall'.error = "DuplicateNode" /\ graph' = graph)
             /\ (op = "connect" /\ (~HasNode(graph, args[1]) \/ ~HasNode(graph, args[2]))) =>
                    (lastCall'.error \in UnknownNode /\ graph' = graph)
             /\ (op \in {"setEntryNodes", "setExitNodes"} /\ AnyUnknown(args)) =>
                    (lastCall'.error \in UnknownNode /\ graph' = graph)]_vars

\* setEntryNodes with an id that is not a node was rejected while an entry list set
\* by an earlier call was in place
C16_RejectedEntryListKept ==
    /\ lastCall.op = "setEntryNodes"
    /\ lastCall.error = "UnknownEntry"
    /\ Len(graph.entryNodes) > 0
    /\ \E i \in 1..Len(lastCall.args) : ~HasNode(graph, lastCall.args[i])

\* the error the last invoke raised, "none" when it raised nothing
RaisedKind == IF Len(runLog) = 0 THEN "none" ELSE ThisRun.outcome.error.kind

\* C17: invoke on a graph with no nodes, on a graph for which no entry node was set,
\* or on a graph for which no exit node was set, fails with the corresponding error,
\* and no node is started by an invoke that failed so
C17_InvokeNeedsNodeEntryExit ==
    /\ [][(pc = "idle" /\ pc' # "idle") =>
            /\ Len(graph.nodes) = 0 => RaisedKind' = "no_nodes"
            /\ (Len(graph.nodes) > 0 /\ Len(graph.entryNodes) = 0) => RaisedKind' = "no_entry"
            /\ (Len(graph.nodes) > 0 /\ Len(graph.entryNodes) > 0 /\ Len(graph.exitNodes) = 0)
                   => RaisedKind' = "no_exit"]_vars
    /\ [](RaisedKind \in {"no_nodes", "no_entry", "no_exit"} => DOMAIN tasks = {})

\* the only construction call was one addNode, and invoke has started the node
C17_RanWithoutEntryOrExitSet ==
    /\ lastCall.n = 1
    /\ lastCall.op = "addNode"
    /\ DOMAIN tasks # {}

----------------------------------------------------------------------------
(* Claims on input wiring *)

\* the most recent connect to input slot `toInput` of node nodeId: the last such edge
LastEdgeTo(nodeId, toInput) ==
    LET hits == {i \in 1..Len(graph.edges) :
                    graph.edges[i].to = nodeId /\ graph.edges[i].toInput = toInput}
    IN  graph.edges[CHOOSE i \in hits : \A j \in hits : j <= i]

\* the input slots of node nodeId some connect was made to
ConnectedSlots(nodeId) ==
    {graph.edges[i].toInput : i \in {j \in 1..Len(graph.edges) : graph.edges[j].to = nodeId}}

\* the slots node nodeId has an inputMappings entry for
MappedSlots(nodeId) ==
    LET node == GetNode(graph, nodeId)
    IN  {node.inputMappings[i].key : i \in 1..Len(node.inputMappings)}

\* inputMappings[toInput] of node nodeId
MappingOf(nodeId, toInput) ==
    LET node == GetNode(graph, nodeId)
    IN  node.inputMappings[CHOOSE i \in 1..Len(node.inputMappings) :
                               node.inputMappings[i].key = toInput].mapping

\* C18: last connection wins: the inputMappings entry of a node for an input slot
\* names the source node and output of the most recent connect to that slot, and a
\* node that is not an entry node is run with, in each connected slot, the output
\* of that source (passed through the transform of that connect)
C18_LastConnectionWins ==
    \A nodeId \in SeqToSet(NodeIds(graph)) :
        /\ MappedSlots(nodeId) = ConnectedSlots(nodeId)
        /\ \A toInput \in ConnectedSlots(nodeId) :
               LET edge == LastEdgeTo(nodeId, toInput)
               IN  /\ MappingOf(nodeId, toInput) = MappingString(edge.from, edge.fromOutput)
                   /\ (nodeId \in DOMAIN tasks /\ ~Includes(graph.entryNodes, nodeId)) =>
                          /\ HasKey(tasks[nodeId].input, toInput)
                          /\ Field(tasks[nodeId].input, toInput) =
                                 ApplyTransform(edge.transform,
                                     Lookup(executionContext.nodeOutputs,
                                            OutputKey(edge.from, edge.fromOutput), Undefined))

\* n3, connected from the node "n1.p" only, runs on the output p of node n1 while
\* "n1.p" has produced nothing yet
C18_FedFromAnotherNode ==
    /\ HasNode(graph, N1P)
    /\ N3 \in DOMAIN tasks
    /\ N1P \notin executionContext.completedNodes
    /\ HasKey(tasks[N3].input, <<"input">>)
    /\ Field(tasks[N3].input, <<"input">>) =
           Lookup(executionContext.nodeOutputs, OutputKey(N1, <<"p">>), Undefined)
    /\ Field(tasks[N3].input, <<"input">>) # Undefined

\* the edges that end in node nodeId
IncomingEdges(nodeId) ==
    LET IsIncoming(e) == e.to = nodeId
    IN  SelectSeq(graph.edges, IsIncoming)

\* the array of the ids of the given nodes
IdArray(nodeIds) == ArrayValue([i \in 1..Len(nodeIds) |-> Scalar(IdText(nodeIds[i]))])

\* C19: a node with exactly one input slot that is wired from a single producer is
\* run with that producer's output value itself as its input, and the linear graph
\* A -> B -> C of nodes that append their id to the array they receive, invoked
\* with [], ends with the result ["A","B","C"]
C19_SingleProducerPassedDirectly ==
    /\ \A nodeId \in DOMAIN tasks :
           (/\ ~Includes(graph.entryNodes, nodeId)
            /\ Len(GetNode(graph, nodeId).inputs) = 1
            /\ Len(IncomingEdges(nodeId)) = 1) =>
               LET edge == IncomingEdges(nodeId)[1]
               IN  tasks[nodeId].input =
                       ApplyTransform(edge.transform,
                           Lookup(executionContext.nodeOutputs,
                                  OutputKey(edge.from, edge.fromOutput), Undefined))
    /\ (/\ NodeIds(graph) = <<NA, NB, NC>>
        /\ pc = "done"
        /\ ~aborted
        /\ ThisRun.input = ArrayValue(<<>>)) =>
           ThisRun.outcome = Returned(IdArray(<<NA, NB, NC>>))

\* the linear graph was invoked with []: B was run with {input: ["A"]} and the run
\* ended with an error instead of a result
C19_LinearRunRaised ==
    /\ NodeIds(graph) = <<NA, NB, NC>>
    /\ pc = "done"
    /\ ~aborted
    /\ ThisRun.input = ArrayValue(<<>>)
    /\ NB \in DOMAIN tasks
    /\ tasks[NB].input = ObjValue(<<[key |-> <<"input">>, value |-> IdArray(<<NA>>)]>>)
    /\ ThisRun.outcome.status = "raised"

\* the input slots node nodeId declares beyond the default one that no edge ends in
UnconnectedSlots(nodeId) ==
    {slot \in SeqToSet(GetNode(graph, nodeId).inputs) :
        /\ slot # <<"input">>
        /\ slot \notin ConnectedSlots(nodeId)}

\* the entry nodes that declare an input slot with no connection to it
NeedyEntries == {id \in SeqToSet(graph.entryNodes) : UnconnectedSlots(id) # {}}

\* C20: invoking a graph with an entry node that declares a required input slot with
\* no connection to it fails with a deadlock error that names the node and the
\* unmapped slot, and the node's runnable is not invoked
C20_UnmetEntryDeadlocks ==
    \A id \in NeedyEntries :
        /\ id \notin DOMAIN tasks
        /\ (pc = "done" /\ ~aborted) =>
               /\ outcome.status = "raised"
               /\ outcome.error.kind = "deadlock"
               /\ \E i \in 1..Len(outcome.error.detail) :
                      /\ outcome.error.detail[i].node = id
                      /\ \A slot \in UnconnectedSlots(id) :
                             Includes(outcome.error.detail[i].missing, slot)

\* the entry node that declares the unconnected input "need" was run on the graph
\* input and the run returned a result
C20_NeedyEntryRan ==
    /\ N1 \in NeedyEntries
    /\ <<"need">> \in UnconnectedSlots(N1)
    /\ N1 \in DOMAIN tasks
    /\ tasks[N1].input = ThisRun.input
    /\ pc = "done"
    /\ ~aborted
    /\ outcome.status = "returned"

----------------------------------------------------------------------------
(* describe() and the builder: a graph is run, rebuilt from its description *)
(* with RunnableGraphBuilder, and the rebuilt graph is run on the same input *)

\* describe()
Describe(g) ==
    [nodes |-> NodeIds(g),
     connections |-> [i \in 1..Len(g.edges) |->
                         [from |-> g.edges[i].from, to |-> g.edges[i].to,
                          fromOutput |-> g.edges[i].fromOutput,
                          toInput |-> g.edges[i].toInput]],
     entryNodes |-> g.entryNodes,
     exitNodes |-> g.exitNodes,
     options |-> g.options]

\* builder.node(id, runnable) for the ids of the list, in order; the runnable of a
\* node is the one the described graph runs under that id
RECURSIVE ReplayNodes(_, _, _)
ReplayNodes(g, nodeIds, described) ==
    IF nodeIds = <<>> THEN g
    ELSE ReplayNodes(AddNode(g, Head(nodeIds), GetNode(described, Head(nodeIds)).runnable,
                             NoConfig).g,
                     Tail(nodeIds), described)

\* builder.connect(from, to, {fromOutput, toInput}) for the connections, in order
RECURSIVE ReplayConnections(_, _)
ReplayConnections(g, connections) ==
    IF connections = <<>> THEN g
    ELSE LET c == Head(connections)
         IN  ReplayConnections(
                 Connect(g, c.from, c.to,
                         [fromOutput |-> c.fromOutput, toInput |-> c.toInput]).g,
                 Tail(connections))

\* new RunnableGraphBuilder(options).node(..)...connect(..)...entry(..).exit(..).build()
\* fed with describe() of the graph `described`
Rebuild(described) ==
    LET d == Describe(described)
        g1 == ReplayNodes(NewGraph(d.options), d.nodes, described)
        g2 == ReplayConnections(g1, d.connections)
    IN  SetExitNodes(SetEntryNodes(g2, d.entryNodes).g, d.exitNodes).g

\* the caller keeps what the first run did and replaces the graph by its rebuild
Replay ==
    /\ pc = "done"
    /\ Len(runLog) = 1
    /\ InFlight = {}
    /\ ~saved.taken
    /\ graph' = Rebuild(graph)
    /\ saved' = [taken |-> TRUE, snapshot |-> executionContext]
    /\ UNCHANGED <<aborted, persistence, executionContext, pc, pendingNodes,
                   runningTasks, raceWinner, nodeOrder, seqIndex, tasks, collectedEvents,
                   delivered, runLog, orch, lastCall, validation>>

\* graph.invoke(input) with no snapshot: the first run, and the run of the rebuild
TripInvoke ==
    /\ Len(runLog) = 1 => saved.taken
    /\ Invoke("none")

NextTrip ==
    \/ TripInvoke
    \/ Replay
    \/ ParallelRound
    \/ ParallelResume
    \/ SequentialStep
    \/ SequentialResume
    \/ \E nodeId \in AllNodeIds : TaskReturn(nodeId)
    \/ \E nodeId \in AllNodeIds : TaskThrow(nodeId)
    \/ Finish

SpecTrip == Init /\ [][NextTrip]_vars

----------------------------------------------------------------------------
(* Claims on describe() *)

\* both runs of a round trip are over: the graph, then its rebuild
TripDone ==
    /\ Len(runLog) = 2
    /\ saved.taken
    /\ pc = "done"
    /\ InFlight = {}

\* C21: a graph rebuilt from describe() through node/connect/entry/exit behaves as
\* the described graph on the same input: the run ends the same way (same result or
\* same error), and in sequential mode the same nodes were run, completed and
\* failed with the same results and errors
C21_RebuildBehavesAlike ==
    TripDone =>
        /\ runLog[2].outcome = runLog[1].outcome
        /\ ~graph.options.parallel => executionContext = saved.snapshot

\* the described graph returned a result; its rebuild, run on the same input, raised
C21_RebuildRaised ==
    /\ TripDone
    /\ runLog[1].outcome.status = "returned"
    /\ runLog[2].outcome.status = "raised"
    /\ runLog[2].input = runLog[1].input

----------------------------------------------------------------------------
(* The validator on its own: validateZodTypeCompatibility applied to a pair *)
(* of schemas                                                              *)

\* the property keys, enum values and literal values of the schemas drawn
SchemaKeys == <<"a", "b", "toString", "constructor">>
SchemaWords == <<"x", "y", "z">>

\* schemas without structure
ZodBasics ==
    {ZodString, ZodNumber, ZodBoolean, ZodDate, ZodAny, ZodUnknown, ZodVoid,
     ZodUndefined, ZodNull, ZodEffects}

\* z.optional(), z.nullable() and z.default() over the schemas without structure
ZodFlagged ==
    {ZodOptional(s) : s \in ZodBasics} \cup {ZodNullable(s) : s \in ZodBasics}
        \cup {ZodDefault(ZodString), ZodOptional(ZodNullable(ZodString))}

\* the schemas the properties of an object are drawn from
ZodPropertySchemas ==
    {ZodString, ZodNumber, ZodAny, ZodOptional(ZodString), ZodNullable(ZodString)}

\* z.object() with no key, one key or both keys, and objects nested one level
ZodFlatObjects ==
    {ZodObject(<<>>)}
        \cup {ZodObject(<<[key |-> SchemaKeys[k], value |-> p]>>) :
                 k \in 1..Len(SchemaKeys), p \in ZodPropertySchemas}
        \cup {ZodObject(<<[key |-> SchemaKeys[1], value |-> p],
                          [key |-> SchemaKeys[2], value |-> q]>>) :
                 p \in ZodPropertySchemas, q \in ZodPropertySchemas}

ZodNestedObjects ==
    {ZodObject(<<[key |-> SchemaKeys[1], value |-> o]>>) :
        o \in {ZodObject(<<>>),
               ZodObject(<<[key |-> SchemaKeys[2], value |-> ZodString]>>),
               ZodObject(<<[key |-> SchemaKeys[2], value |-> ZodNumber]>>),
               ZodObject(<<[key |-> SchemaKeys[2], value |-> ZodOptional(ZodString)]>>)}}

ZodArrays ==
    {ZodArray(e) : e \in {ZodString, ZodNumber, ZodBoolean, ZodAny, ZodNullable(ZodString),
                          ZodArray(ZodString), ZodArray(ZodNumber)}}

ZodUnions ==
    {ZodUnion(<<s, t>>) : s \in {ZodString, ZodNumber, ZodBoolean},
                          t \in {ZodString, ZodNumber, ZodBoolean, ZodNull}}

ZodEnums ==
    {ZodEnum(values) : values \in {<<SchemaWords[1]>>, <<SchemaWords[2]>>,
                                   <<SchemaWords[1], SchemaWords[2]>>,
                                   <<SchemaWords[2], SchemaWords[3]>>}}

ZodLiterals == {ZodLiteral(SchemaWords[1]), ZodLiteral(SchemaWords[2])}

\* the schemas a runnable may declare
ZodSchemas ==
    ZodBasics \cup ZodFlagged \cup ZodFlatObjects \cup ZodNestedObjects \cup ZodArrays
        \cup ZodUnions \cup ZodEnums \cup ZodLiterals

\* validateZodTypeCompatibility(outputSchema, inputSchema) returns
Validate ==
    /\ ~validation.called
    /\ validation' =
           [validation EXCEPT
               !.called = TRUE,
               !.result = ValidateZodTypeCompatibility(validation.outputSchema,
                                                       validation.inputSchema)]
    /\ UNCHANGED <<graph, aborted, persistence, saved, executionContext, pc, pendingNodes,
                   runningTasks, raceWinner, nodeOrder, seqIndex, tasks, collectedEvents,
                   delivered, runLog, orch, lastCall>>

InitValidate ==
    /\ ConstructedGraph(NewGraph([parallel |-> TRUE, maxConcurrency |-> MaxConcurrencyChoice,
                                  continueOnError |-> FALSE, name |-> "G"]), "default")
    /\ validation \in
           {[called |-> FALSE, outputSchema |-> o, inputSchema |-> i, result |-> EmptyResult] :
               o \in ZodSchemas, i \in ZodSchemas}

NextValidate == Validate

SpecValidate == InitValidate /\ [][NextValidate]_vars

\* the SchemaInfo pair the recorded call was made on
OutputInfo == ExtractSchemaInfo(validation.outputSchema)
InputInfo == ExtractSchemaInfo(validation.inputSchema)

----------------------------------------------------------------------------
(* Construction with schemas: addNode of runnables that declare schemas and *)
(* connect between them                                                    *)

ConnectIds == {N1, N2}

\* the schemas the runnables of these graphs declare, as input and as output
ConnectSchemas ==
    {ZodString, ZodNumber,
     ZodObject(<<[key |-> "a", value |-> ZodString]>>),
     ZodObject(<<[key |-> "a", value |-> ZodString], [key |-> "b", value |-> ZodNumber]>>)}

\* a runnable without schemas, and runnables that declare one schema for both sides
ConnectRunnables ==
    {ScalarRunnable} \cup {WithSchemas(ScalarRunnable, s, s) : s \in ConnectSchemas}

\* the node configs: none, one declared output, two declared outputs, one declared
\* input other than the default
ConnectNodeConfigs ==
    {NoConfig, [outputs |-> << <<"p">> >>], [outputs |-> << <<"p">>, <<"q">> >>],
     [inputs |-> << <<"left">> >>]}

\* the connect configs: none, a named output, a named input, both
ConnectEdgeConfigs ==
    {NoConfig, [fromOutput |-> <<"p">>], [toInput |-> <<"aux">>],
     [fromOutput |-> <<"p">>, toInput |-> <<"aux">>]}

\* graph.addNode(id, runnable, config)
CallAddNodeWith(id, runnable, config) ==
    Call("addNode", <<id>>, AddNode(graph, id, runnable, config))

\* graph.connect(fromNodeId, toNodeId, config)
CallConnectWith(fromNodeId, toNodeId, config) ==
    Call("connect", <<fromNodeId, toNodeId, config>>,
         Connect(graph, fromNodeId, toNodeId, config))

NextConnect ==
    \/ \E id \in ConnectIds, runnable \in ConnectRunnables, config \in ConnectNodeConfigs :
           CallAddNodeWith(id, runnable, config)
    \/ \E from \in ConnectIds, to \in ConnectIds, config \in ConnectEdgeConfigs :
           CallConnectWith(from, to, config)

SpecConnect == InitBuild /\ [][NextConnect]_vars

----------------------------------------------------------------------------
(* Claims on schema validation at construction *)

\* the step is a connect call between two nodes of the graph
ConnectStep ==
    /\ lastCall'.n = lastCall.n + 1
    /\ lastCall'.op = "connect"
    /\ HasNode(graph, lastCall'.args[1])
    /\ HasNode(graph, lastCall'.args[2])

\* what the validator says of the schemas of the two endpoints of that connect call
ConnectValidation ==
    ValidateZodTypeCompatibility(
        OutputSchemaOf(GetNode(graph, lastCall'.args[1]).runnable),
        InputSchemaOf(GetNode(graph, lastCall'.args[2]).runnable))

\* both endpoints of that connect call declare the schema that is compared
BothDeclareSchemas ==
    /\ OutputSchemaOf(GetNode(graph, lastCall'.args[1]).runnable) # NoSchema
    /\ InputSchemaOf(GetNode(graph, lastCall'.args[2]).runnable) # NoSchema

----------------------------------------------------------------------------
(* Claims on the validator *)

\* the properties object has an entry of its own for the key
HasProperty(properties, key) == \E i \in 1..Len(properties) : properties[i].key = key

Messages(list) == {list[i] : i \in 1..Len(list)}

\* a message names the key as its argument
NamesKey(message, key) == Len(message) >= 2 /\ message[2] = key

\* the validator was called on two object schemas
ObjectPair ==
    /\ validation.called
    /\ validation.outputSchema.typeName = "ZodObject"
    /\ validation.inputSchema.typeName = "ZodObject"

\* the consumer's properties the producer does not have, required ones and optional ones
AbsentRequired ==
    {i \in 1..Len(InputInfo.properties) :
        /\ ~HasProperty(OutputInfo.properties, InputInfo.properties[i].key)
        /\ ~InputInfo.properties[i].value.optional}
AbsentOptional ==
    {i \in 1..Len(InputInfo.properties) :
        /\ ~HasProperty(OutputInfo.properties, InputInfo.properties[i].key)
        /\ InputInfo.properties[i].value.optional}

\* the producer's properties the consumer does not have
UnusedByInput ==
    {i \in 1..Len(OutputInfo.properties) :
        ~HasProperty(InputInfo.properties, OutputInfo.properties[i].key)}

\* the object schema without the entries at the given positions of its shape
WithoutEntries(schema, positions) ==
    LET kept == {i \in 1..Len(schema.shape) : i \notin positions}
        Pick[n \in 0..Len(schema.shape)] ==
            IF n = 0 THEN <<>>
            ELSE IF n \in kept THEN Append(Pick[n - 1], schema.shape[n]) ELSE Pick[n - 1]
    IN  ZodObject(Pick[Len(schema.shape)])

\* C23: object against object: a required consumer property the producer lacks gives
\* an error naming it and an incompatible result; an optional one gives a warning
\* naming it, no error naming it, and the verdict and errors the consumer without it
\* would get; producer properties the consumer lacks add no error
C23_MissingRequiredFailsOptionalWarns ==
    ObjectPair =>
        /\ \A i \in AbsentRequired :
               /\ <<"Required input property", InputInfo.properties[i].key,
                    "is not provided by output schema">> \in Messages(validation.result.errors)
               /\ ~validation.result.compatible
        /\ \A i \in AbsentOptional :
               /\ \E w \in Messages(validation.result.warnings) :
                      NamesKey(w, InputInfo.properties[i].key)
               /\ \A e \in Messages(validation.result.errors) :
                      ~NamesKey(e, InputInfo.properties[i].key)
        /\ LET reduced == ValidateZodTypeCompatibility(validation.outputSchema,
                              WithoutEntries(validation.inputSchema, AbsentOptional))
           IN  /\ validation.result.compatible = reduced.compatible
               /\ validation.result.errors = reduced.errors
        /\ validation.result.errors =
               ValidateZodTypeCompatibility(
                   WithoutEntries(validation.outputSchema, UnusedByInput),
                   validation.inputSchema).errors

\* a producer without properties was validated against a consumer all of whose
\* properties are optional, and the result is incompatible
C23_OptionalOnlyConsumerRejected ==
    /\ ObjectPair
    /\ OutputInfo.properties = <<>>
    /\ AbsentRequired = {}
    /\ AbsentOptional # {}
    /\ ~validation.result.compatible

----------------------------------------------------------------------------
(* Claims on the record of failures *)

\* a run has been ended by the error of a node's runnable
AbortedByNode ==
    /\ pc = "done"
    /\ outcome.status = "raised"
    /\ outcome.error.kind = "node"

\* C24: a failure of a node's runnable is recorded in failedNodes and nodeErrors of
\* the execution context, also when it ends the run; once a run was ended by a node's
\* failure the snapshot lists that node as failed and holds every completed node
C24_FailureRecordedAlsoOnAbort ==
    /\ [][\A id \in AllNodeIds :
             RunnableFails(id) =>
                 /\ id \in executionContext'.failedNodes
                 /\ id \in DOMAIN executionContext'.nodeErrors]_vars
    /\ [](AbortedByNode =>
             /\ outcome.error.node \in persistence.failedNodes
             /\ executionContext.completedNodes \subseteq persistence.completedNodes)

\* a run was ended by a node's failure after another node had completed; the failing
\* node is in neither failedNodes set, the completed node is in the snapshot
C24_AbortingFailureUnrecorded ==
    /\ AbortedByNode
    /\ outcome.error.node \notin executionContext.failedNodes
    /\ outcome.error.node \notin DOMAIN executionContext.nodeErrors
    /\ outcome.error.node \notin persistence.failedNodes
    /\ executionContext.completedNodes # {}
    /\ executionContext.completedNodes \subseteq persistence.completedNodes

----------------------------------------------------------------------------
(* Claims on the order of execution *)

\* the nodes in runningTasks whose task has settled
SettledTasks == {i \in 1..Len(runningTasks) : Settled(runningTasks[i])}

\* every node that nodeId is wired from has completed
SourcesCompleted(nodeId, ctx) ==
    /\ MappedSources(graph, nodeId) # {}
    /\ MappedSources(graph, nodeId) \subseteq ctx.completedNodes

\* C25: the parallel scheduler is work-conserving: when a pass of its loop reaches
\* the await, no node all of whose sources have completed, and no node that passes
\* the readiness test, is left pending unless runningTasks has reached maxConcurrency;
\* and the next pass begins as soon as one running task has settled, whatever else is
\* still in flight
C25_WorkConserving ==
    /\ [][(pc = "parallel" /\ pc' = "race") =>
             \A i \in 1..Len(pendingNodes') :
                 (\/ SourcesCompleted(pendingNodes'[i], executionContext')
                  \/ CanExecuteNode(graph, pendingNodes'[i], executionContext'))
                     => Len(runningTasks') >= graph.options.maxConcurrency]_vars
    /\ []((pc = "race" /\ SettledTasks # {}) => ENABLED ParallelResume)

\* a node wired from a completed node is running while a node started before it is
\* still running
C25_StartedWhileOtherInFlight ==
    \E b \in InFlight, c \in InFlight :
        /\ b # c
        /\ ~Includes(graph.entryNodes, c)
        /\ Includes(graph.entryNodes, b)
        /\ b \notin MappedSources(graph, c)
        /\ SourcesCompleted(c, executionContext)

----------------------------------------------------------------------------
(* Scheduling: graphs in which an entry node runs beside a chain, and in which an *)
(* entry node is itself wired from another node                                 *)

\* A and B are entry nodes, C is wired from A only; B and C are the exit nodes
SideGraph(options, runnables, optional) ==
    LET g3 == Node3(NewGraph(options), <<NA, NB, NC>>, runnables, optional,
                    <<NoConfig, NoConfig, NoConfig>>)
        g4 == Connect(g3, NA, NC, NoConfig).g
    IN  SetExitNodes(SetEntryNodes(g4, <<NA, NB>>).g, <<NB, NC>>).g

\* n1 -> n2 -> n3 with both n1 and n2 set as entry nodes
WiredEntryGraph(options, runnables, optional) ==
    LET g3 == Node3(NewGraph(options), <<N1, N2, N3>>, runnables, optional,
                    <<NoConfig, NoConfig, NoConfig>>)
        g4 == Connect(g3, N1, N2, NoConfig).g
        g5 == Connect(g4, N2, N3, NoConfig).g
    IN  SetExitNodes(SetEntryNodes(g5, <<N1, N2>>).g, <<N3>>).g

\* n3 -> n2 -> n1: the nodes are added in the reverse of the order of the edges
ReverseGraph(options, runnables, optional) ==
    LET g3 == Node3(NewGraph(options), <<N1, N2, N3>>, runnables, optional,
                    <<NoConfig, NoConfig, NoConfig>>)
        g4 == Connect(g3, N3, N2, NoConfig).g
        g5 == Connect(g4, N2, N1, NoConfig).g
    IN  SetExitNodes(SetEntryNodes(g5, <<N3>>).g, <<N1>>).g

SchedGraphs ==
    {CASE shape = "side" -> SideGraph(options, runnables, [i \in 1..3 |-> i \in opt])
       [] shape = "wiredEntry" ->
              WiredEntryGraph(options, runnables, [i \in 1..3 |-> i \in opt])
       [] shape = "reverse" ->
              ReverseGraph(options, runnables, [i \in 1..3 |-> i \in opt]) :
        shape \in {"side", "wiredEntry", "reverse"},
        options \in GraphOptions,
        runnables \in {[i \in 1..3 |-> IF i \in failing THEN FailingRunnable
                                                       ELSE ScalarRunnable] :
                          failing \in {f \in SUBSET (1..3) : Cardinality(f) <= MaxFailing}},
        opt \in {o \in SUBSET (1..3) : Cardinality(o) <= MaxOptional}}

InitSched == \E g \in SchedGraphs : Constructed(g, "default")

SpecSched == InitSched /\ [][Next]_vars
----------------------------------------------------------------------------
(* Claims on the sequential order *)

\* the place of a node in the planned order, 0 when it is not in it
PlaceOf(order, nodeId) ==
    IF Includes(order, nodeId) THEN CHOOSE i \in 1..Len(order) : order[i] = nodeId ELSE 0

\* a sequential run is between its plan and its end
SequentialRunning == ~graph.options.parallel /\ pc \in {"sequential", "await"}

\* C26: in sequential mode at most one node is in flight at any time; the order is
\* fixed before the first node starts and nodes start in that order; and in the order
\* every node comes after every node it has an edge from, a source that is not in the
\* order being one that had completed when the order was computed
C26_OneTopologicalOrder ==
    /\ [](~graph.options.parallel => Cardinality(InFlight) <= 1)
    /\ [](SequentialRunning =>
             \A i \in 1..Len(graph.edges) :
                 LET e == graph.edges[i]
                 IN  Includes(nodeOrder, e.to) =>
                         IF Includes(nodeOrder, e.from)
                         THEN PlaceOf(nodeOrder, e.from) < PlaceOf(nodeOrder, e.to)
                         ELSE e.from \in executionContext.completedNodes)
    /\ [][~graph.options.parallel =>
             \A id \in Started :
                 /\ nodeOrder' = nodeOrder
                 /\ Includes(nodeOrder, id)
                 /\ \A other \in DOMAIN tasks :
                        PlaceOf(nodeOrder, other) < PlaceOf(nodeOrder, id)]_vars

\* a sequential run has started the last node of an order of three nodes that is not
\* the order in which the nodes were added, the two before it having finished
C26_ThirdNodeStartedLast ==
    /\ SequentialRunning
    /\ Len(nodeOrder) = 3
    /\ nodeOrder[3] \in InFlight
    /\ nodeOrder # NodeIds(graph)
    /\ Settled(nodeOrder[1])
    /\ Settled(nodeOrder[2])

----------------------------------------------------------------------------
(* Resuming from a snapshot the caller kept from an earlier process *)

\* the snapshots handed in: one node listed as failed, with its error, nothing completed
ResumeSnapshots(g) ==
    {[EmptyPersistence EXCEPT !.failedNodes = {f},
                              !.nodeErrors = Put(EmptyMap, f, Err("node", f, <<>>))] :
        f \in SeqToSet(NodeIds(g))}

\* the caller reads back a snapshot to pass as context.persistence
LoadSnapshot ==
    /\ pc = "idle"
    /\ ~saved.taken
    /\ \E snapshot \in ResumeSnapshots(graph) :
           saved' = [taken |-> TRUE, snapshot |-> snapshot]
    /\ UNCHANGED <<graph, aborted, persistence, executionContext, pc, pendingNodes,
                   runningTasks, raceWinner, nodeOrder, seqIndex, tasks, collectedEvents,
                   delivered, runLog>>
    /\ UNCHANGED <<orch, lastCall, validation>>

NextResume ==
    \/ LoadSnapshot
    \/ Next

SpecResume == InitSched /\ [][NextResume]_vars

----------------------------------------------------------------------------
(* Claims on failed dependencies *)

\* the nodes that nodeId is wired from, are not optional and are in failedNodes
FailedRequiredSources(nodeId, ctx) ==
    {s \in MappedSources(graph, nodeId) : s \in ctx.failedNodes /\ ~GetNode(graph, s).optional}

\* a run is over that no error of a runnable and no abort cut short
RanToItsEnd ==
    /\ pc = "done"
    /\ \/ outcome.status = "returned"
       \/ outcome.error.kind \in {"deadlock", "unsatisfied", "exit_failed", "exit_incomplete"}

----------------------------------------------------------------------------
(* Claims on entry nodes *)

\* the entry nodes that are neither completed nor failed nor started
WaitingEntries(ctx, started) ==
    {id \in SeqToSet(graph.entryNodes) :
        /\ id \notin ctx.completedNodes
        /\ id \notin ctx.failedNodes
        /\ id \notin started}

\* C28: an entry node that is neither completed nor failed is ready whatever its
\* inputMappings hold: a pass of the parallel scheduler leaves none unstarted unless
\* runningTasks has reached maxConcurrency, no run ends in a deadlock or an
\* unsatisfied dependency with one left unstarted, and every entry node is started
\* with the input of the run
C28_EntryNodeAlwaysReady ==
    /\ [][(pc = "parallel" /\ pc' = "race") =>
             (WaitingEntries(executionContext', DOMAIN tasks') # {}
                  => Len(runningTasks') >= graph.options.maxConcurrency)]_vars
    /\ []((pc = "done" /\ outcome.error.kind \in {"deadlock", "unsatisfied"})
              => WaitingEntries(executionContext, DOMAIN tasks) = {})
    /\ [][\A id \in Started :
             Includes(graph.entryNodes, id) => tasks'[id].input = ThisRun.input]_vars

\* the parallel scheduler is waiting with a free slot while an entry node that is
\* wired from a node still running has not been started
C28_EntryWaitsForSource ==
    /\ pc = "race"
    /\ Len(runningTasks) < graph.options.maxConcurrency
    /\ \E id \in WaitingEntries(executionContext, DOMAIN tasks) :
           MappedSources(graph, id) \cap InFlight # {}

----------------------------------------------------------------------------
(* Claims on the slots of a node *)

\* the keys of the inputMappings of a node
MappingKeys(node) == {node.inputMappings[i].key : i \in 1..Len(node.inputMappings)}

\* C29: after any sequence of addNode and connect calls, the keys of every node's
\* inputMappings are among the node's input slots
C29_MappingKeysAreInputs ==
    \A i \in 1..Len(graph.nodes) :
        MappingKeys(graph.nodes[i]) \subseteq SeqToSet(graph.nodes[i].inputs)

\* a node added with the one input "left" is connected through the inputs "input"
\* and "aux", neither of which it was added with
C29_ConnectedThroughNewSlots ==
    \E i \in 1..Len(graph.nodes) :
        /\ graph.nodes[i].inputs[1] = <<"left">>
        /\ MappingKeys(graph.nodes[i]) = {<<"input">>, <<"aux">>}

----------------------------------------------------------------------------
(* Claims on the shape of the graph *)

\* what describe() reports of the shape: nodes, connections, entry and exit nodes
Shape(g) ==
    [nodes |-> Describe(g).nodes, connections |-> Describe(g).connections,
     entryNodes |-> Describe(g).entryNodes, exitNodes |-> Describe(g).exitNodes]

\* C30: no step of an execution changes the shape describe() reports: the nodes, the
\* connections, the entry nodes and the exit nodes are after every step of invoke what
\* they were before it, also on a graph whose entry or exit nodes were never set
C30_InvokeKeepsShape ==
    [][lastCall' = lastCall => Shape(graph') = Shape(graph)]_vars

\* a run is over on a graph of three nodes whose entry nodes are all three: a list
\* that no setEntryNodes call of the caller gives
C30_EntryNodesFilledIn ==
    /\ pc = "done"
    /\ graph.entryNodes = <<N1, N2, N3>>
    /\ graph.entryNodes \notin BuildIdLists

----------------------------------------------------------------------------
(* Connections with transforms: connect calls that carry a transform, made  *)
(* on a graph of three nodes, and a run of the graph built                 *)

\* the connect configs: the default slot or the slot "x", without a transform or
\* with one of two
TransformConfigs ==
    {NoConfig, [transform |-> "t1"], [transform |-> "t2"],
     [toInput |-> <<"x">>], [toInput |-> <<"x">>, transform |-> "t1"]}

\* the three nodes n1, n2, n3 added, nothing connected, no entry or exit node set
ThreeNodes(options) ==
    Node3(NewGraph(options), <<N1, N2, N3>>,
          <<ScalarRunnable, ScalarRunnable, ScalarRunnable>>, <<FALSE, FALSE, FALSE>>,
          <<NoConfig, NoConfig, NoConfig>>)

InitTransform == \E options \in BuildOptions : Constructed(ThreeNodes(options), "default")

NextTransform ==
    \/ \E from \in {N1, N2}, config \in TransformConfigs : CallConnectWith(from, N3, config)
    \/ \E input \in {GraphInput} : InvokeInput(input)
    \/ ParallelRound
    \/ ParallelResume
    \/ SequentialStep
    \/ SequentialResume
    \/ \E nodeId \in AllNodeIds : TaskReturn(nodeId)
    \/ Finish

SpecTransform == InitTransform /\ [][NextTransform]_vars

----------------------------------------------------------------------------
(* Claims on transforms *)

\* the value the run holds for the output an edge starts from
SourceValue(edge) ==
    Lookup(executionContext.nodeOutputs, OutputKey(edge.from, edge.fromOutput), Undefined)

\* the connect calls made to input slot toInput of node nodeId, in the order made
ConnectsTo(nodeId, toInput) ==
    LET Targets(e) == e.to = nodeId /\ e.toInput = toInput
    IN  SelectSeq(graph.edges, Targets)

\* C31: the transform applied to an input slot is that of the connect call made last
\* to the slot: a node that is not an entry node is run with, in each connected slot,
\* the source value passed through the transform of the last connect call to the
\* slot, and with the source value itself when that call gave no transform
C31_TransformOfLastConnect ==
    \A nodeId \in DOMAIN tasks :
        ~Includes(graph.entryNodes, nodeId) =>
            \A toInput \in ConnectedSlots(nodeId) :
                LET edge == LastEdgeTo(nodeId, toInput)
                IN  Field(tasks[nodeId].input, toInput) =
                        IF edge.transform = "none" THEN SourceValue(edge)
                        ELSE ApplyTransform(edge.transform, SourceValue(edge))

\* n3 was connected twice from the output of n1 to its default slot, first with the
\* transform t1 and then without a transform, and is run with t1 applied
C31_FirstTransformApplied ==
    /\ N3 \in DOMAIN tasks
    /\ Len(ConnectsTo(N3, <<"input">>)) = 2
    /\ ConnectsTo(N3, <<"input">>)[1].from = N1
    /\ ConnectsTo(N3, <<"input">>)[1].transform = "t1"
    /\ ConnectsTo(N3, <<"input">>)[2].from = N1
    /\ ConnectsTo(N3, <<"input">>)[2].transform = "none"
    /\ SourceValue(ConnectsTo(N3, <<"input">>)[2]) # Undefined
    /\ Field(tasks[N3].input, <<"input">>) =
           ApplyTransform("t1", SourceValue(ConnectsTo(N3, <<"input">>)[2]))
    /\ Field(tasks[N3].input, <<"input">>) # SourceValue(ConnectsTo(N3, <<"input">>)[2])

----------------------------------------------------------------------------
(* Claims on the result of the validator *)

\* compatible is false exactly when there are errors
ErrorsIffIncompatible(result) == (~result.compatible) <=> (Len(result.errors) > 0)

\* the recorded call got as far as comparing two schemas of the type `type` in depth
ComparedInDepth(type) ==
    /\ validation.outputSchema # NoSchema
    /\ validation.inputSchema # NoSchema
    /\ OutputInfo.type = type
    /\ InputInfo.type = type

\* the results of the recursive calls whose errors the result of the recorded call
\* took over: of the helper for the type, of each property present on both sides,
\* of the array elements
MergedResults ==
    (IF ComparedInDepth("object")
     THEN {ValidateObjectCompatibility(OutputInfo, InputInfo)} \cup
          {ValidateSchemaCompatibility(
               Property(OutputInfo.properties, InputInfo.properties[i].key)[1],
               InputInfo.properties[i].value) :
             i \in {j \in 1..Len(InputInfo.properties) :
                       Property(OutputInfo.properties, InputInfo.properties[j].key) # <<>>}}
     ELSE {})
    \cup
    (IF ComparedInDepth("array")
     THEN {ValidateArrayCompatibility(OutputInfo, InputInfo),
           ValidateSchemaCompatibility(OutputInfo.element[1], InputInfo.element[1])}
     ELSE {})
    \cup
    (IF ComparedInDepth("enum")
     THEN {ValidateEnumCompatibility(OutputInfo, InputInfo)} ELSE {})
    \cup
    (IF ComparedInDepth("union")
     THEN {ValidateUnionCompatibility(OutputInfo, InputInfo)} ELSE {})
    \cup
    (IF ComparedInDepth("literal")
     THEN {ValidateLiteralCompatibility(OutputInfo, InputInfo)} ELSE {})

\* C32: for every pair of schemas the result of the validator has compatible false
\* if and only if its errors list is not empty, and so has every result of a
\* recursive call that is merged into it
C32_IncompatibleIffErrors ==
    validation.called =>
        /\ ErrorsIffIncompatible(validation.result)
        /\ \A sub \in MergedResults : ErrorsIffIncompatible(sub)

\* two arrays were compared whose elements are arrays of different element types:
\* the result is incompatible and holds the errors of two levels of recursion
C32_NestedErrorsMerged ==
    /\ validation.called
    /\ ComparedInDepth("array")
    /\ OutputInfo.element[1].type = "array"
    /\ InputInfo.element[1].type = "array"
    /\ ~validation.result.compatible
    /\ Len(validation.result.errors) = 3
    /\ \E sub \in MergedResults : Len(sub.errors) = 2

----------------------------------------------------------------------------
(* Claims on wildcard types *)

\* the types that stand for any value
WildcardTypes == {"any", "unknown"}

\* C33: wildcard types are compatible with anything: when the type of the producer or
\* of the consumer is any or unknown, the validator returns compatible = true and no
\* errors, whatever the other side is and however the optional and nullable flags
\* are set
C33_WildcardAlwaysCompatible ==
    (/\ validation.called
     /\ (OutputInfo.type \in WildcardTypes \/ InputInfo.type \in WildcardTypes)) =>
        /\ validation.result.compatible
        /\ validation.result.errors = <<>>

\* z.void() was validated against z.any() and found incompatible
C33_VoidRejectedByAny ==
    /\ validation.called
    /\ validation.outputSchema = ZodVoid
    /\ validation.inputSchema = ZodAny
    /\ ~validation.result.compatible
    /\ validation.result.errors = << <<"Output is void/undefined but input is required">> >>

----------------------------------------------------------------------------
(* Claims on unions *)

\* the producer of the recorded call satisfies at least one alternative of the consumer
SatisfiesAnAlternative ==
    \E j \in 1..Len(InputInfo.union) :
        ValidateSchemaCompatibility(OutputInfo, InputInfo.union[j]).compatible

\* C34: when the consumer is a union and the producer is not, the validator returns
\* compatible = true exactly when the producer is compatible with at least one
\* alternative of the consumer
C34_ConsumerUnionNeedsOneAlternative ==
    (/\ validation.called
     /\ InputInfo.type = "union"
     /\ OutputInfo.type # "union") =>
        (validation.result.compatible <=> SatisfiesAnAlternative)

\* z.string() was validated against z.union([z.string(), z.number()]) and found
\* incompatible for its type, although it satisfies the first alternative
C34_StringRejectedByStringOrNumber ==
    /\ validation.called
    /\ validation.outputSchema = ZodString
    /\ validation.inputSchema = ZodUnion(<<ZodString, ZodNumber>>)
    /\ SatisfiesAnAlternative
    /\ ~validation.result.compatible
    /\ validation.result.errors = << <<"Incompatible types", "string", "union">> >>

----------------------------------------------------------------------------
(* Claims on the basic kinds *)

\* the schemas of the four basic kinds, without flags
BasicKindSchemas == {ZodString, ZodNumber, ZodBoolean, ZodDate}

\* the pairs of different kinds the table gives as compatible
Stringified == {<<"number", "string">>, <<"boolean", "string">>}

\* C35: for a producer and a consumer among string, number, boolean and date, the
\* validator reports compatible = true exactly for equal kinds, number -> string and
\* boolean -> string, and an error for every other ordered pair
C35_BasicKindTable ==
    (/\ validation.called
     /\ validation.outputSchema \in BasicKindSchemas
     /\ validation.inputSchema \in BasicKindSchemas) =>
        /\ validation.result.compatible <=>
               \/ OutputInfo.type = InputInfo.type
               \/ <<OutputInfo.type, InputInfo.type>> \in Stringified
        /\ validation.result.compatible <=> validation.result.errors = <<>>

\* z.string() was validated against z.date() and found compatible, without a warning
C35_StringAcceptedAsDate ==
    /\ validation.called
    /\ validation.outputSchema = ZodString
    /\ validation.inputSchema = ZodDate
    /\ validation.result = EmptyResult

----------------------------------------------------------------------------
(* Claims on the two sets of settled nodes *)

\* the nodes recorded both as completed and as failed
CompletedAndFailed(ctx) == ctx.completedNodes \cap ctx.failedNodes

\* C36: in every state of a run, and in the snapshot after every update, no node id
\* is both in completedNodes and in failedNodes: a node whose result lacks a declared
\* output slot ends in exactly one of the two sets
C36_CompletedFailedDisjoint ==
    /\ CompletedAndFailed(executionContext) = {}
    /\ CompletedAndFailed(persistence) = {}

\* the run is over and a node with a declared output that its result lacks is
\* recorded as completed and as failed, in the run's state and in the snapshot
C36_NodeInBothSets ==
    /\ pc = "done"
    /\ \E id \in CompletedAndFailed(executionContext) \cap CompletedAndFailed(persistence) :
           /\ GetNode(graph, id).outputs # << <<"output">> >>
           /\ id \in DOMAIN executionContext.nodeErrors
           /\ executionContext.nodeErrors[id].kind = "missing_output"

----------------------------------------------------------------------------
(* Termination: the run under fair scheduling.  The executors' loops go on  *)
(* whenever they can, a settled promise resumes the awaiting executor, and  *)
(* every started runnable returns or throws in the end.                    *)

\* a step of the executors of the run
ExecutorStep ==
    ParallelRound \/ ParallelResume \/ SequentialStep \/ SequentialResume \/ Finish

\* a started runnable returns or throws
TaskSettles == \E nodeId \in AllNodeIds : TaskReturn(nodeId) \/ TaskThrow(nodeId)

Fairness == WF_vars(ExecutorStep) /\ WF_vars(TaskSettles)

\* the graphs whose runs are followed to their end: every shape, in parallel and in
\* sequential mode, with errors of optional nodes passed over
FairOptions ==
    [parallel : BOOLEAN, maxConcurrency : {MaxConcurrencyChoice},
     continueOnError : {TRUE}, name : {"G"}]

\* which runnables fail, and which nodes are optional: none, or the failing one
FailingAndOptional ==
    {fo \in (SUBSET (1..3)) \X (SUBSET (1..3)) :
        Cardinality(fo[1]) <= MaxFailing /\ fo[2] \in {{}, fo[1]}}

FairGraphsOfShape(shape) ==
    {ShapeGraph(shape, options,
                [i \in 1..3 |-> IF i \in fo[1] THEN FailingRunnable ELSE base[i]],
                [i \in 1..3 |-> i \in fo[2]]) :
        options \in FairOptions,
        base \in BaseRunnables(shape),
        fo \in FailingAndOptional}

InitFair == \E shape \in Shapes : \E g \in FairGraphsOfShape(shape) : Constructed(g, "default")

SpecFair == InitFair /\ [][Next]_vars /\ Fairness

----------------------------------------------------------------------------
(* Claims on what a run does once it has ended *)

\* a step taken while the run that was started last is over, and that starts no run
AfterTheEnd == pc = "done" /\ Len(runLog') = Len(runLog)

\* C38: once a run has ended, with a result or with an error, it changes the caller's
\* snapshot no more and starts no further node, also when a node's failure ended a
\* parallel run while other nodes were still in flight
C38_NothingAfterTheEnd ==
    [][AfterTheEnd => (persistence' = persistence /\ DOMAIN tasks' = DOMAIN tasks)]_vars

\* a parallel run has ended with an error while a node it started is still running,
\* and the return of that node's runnable is a step that writes the snapshot
C38_EndedWithNodeRunning ==
    /\ pc = "done"
    /\ graph.options.parallel
    /\ outcome.status = "raised"
    /\ \E id \in InFlight :
           /\ id \notin persistence.completedNodes
           /\ ENABLED (TaskReturn(id) /\ id \in persistence'.completedNodes)

----------------------------------------------------------------------------
(* Claims on the completion event *)

\* the places of the events of a type among those the run has yielded to its caller
PlacesOf(type) == {i \in 1..Len(delivered) : delivered[i].type = type}

\* C39: the "Graph execution completed" event is emitted only by a run that then
\* returns a result: no run emits it and afterwards emits an error event or raises
C39_CompletionEventMeansResult ==
    PlacesOf("graph_complete") # {} =>
        /\ \A i \in PlacesOf("graph_complete") :
               \A j \in PlacesOf("graph_failed") \cup PlacesOf("graph_error") : j < i
        /\ pc = "done" => outcome.status = "returned"

\* a run has yielded the completion event and after it the error event, and has
\* raised the error of a failed exit node
C39_CompletedThenRaised ==
    /\ pc = "done"
    /\ outcome.status = "raised"
    /\ outcome.error.kind = "exit_failed"
    /\ \E i \in PlacesOf("graph_complete") : \E j \in PlacesOf("graph_error") : i < j

----------------------------------------------------------------------------
(* Claims on a rejected connect *)

\* C40: a connect call that fails with a schema incompatibility leaves the graph as
\* it was before the call: no edge is added, no input mapping is set, and the input
\* and output slots of its two nodes are unchanged
C40_RejectedConnectChangesNothing ==
    [][(ConnectStep /\ lastCall'.error = "SchemaIncompatible") => graph' = graph]_vars

\* the last call was a connect rejected for its schemas, no connect has succeeded,
\* and a node has the input slot "aux", which only a connect call names
C40_SlotLeftByRejectedConnect ==
    /\ lastCall.op = "connect"
    /\ lastCall.error = "SchemaIncompatible"
    /\ Len(graph.edges) = 0
    /\ \E i \in 1..Len(graph.nodes) :
           /\ Includes(graph.nodes[i].inputs, <<"aux">>)
           /\ graph.nodes[i].inputMappings = <<>>

====
